---- MODULE Spec2Model ----
(***************************************************************************)
(* Monte Carlo portfolio optimisation: the Return/Risk estimator, the      *)
(* portfolio metric evaluator, the risk-constrained selector and the       *)
(* PortfolioOptimizer object that drives them.                             *)
(*                                                                         *)
(* Numbers.  A Python float is modelled as an integer in fixed point with  *)
(* Scale units to 1 (quotients are floored), or as the value NaN.  Every   *)
(* comparison with NaN is false, as in IEEE 754.  A weight is an integer   *)
(* number of WDen-ths.  numpy arrays are sequences; an index returned by   *)
(* the code (0-based) is kept 0-based.                                     *)
(***************************************************************************)
EXTENDS Integers, Sequences, FiniteSets, TLC

VARIABLES
    sel_args,            \* arguments of the last find_optimal_portfolio call
    sel_result,          \* what that call returned or raised
    met_args,            \* arguments of the last calculate_portfolio_metrics call
    met_result,          \* what that call returned or raised
    est_result,          \* calculate_returns_and_risk on the derived series
    market,              \* what the data source returns for the configured tickers
    config,              \* self.config
    benchmark_data,      \* self.benchmark_data
    portfolio_data,      \* self.portfolio_data
    benchmark_return,    \* self.benchmark_return
    benchmark_risk,      \* self.benchmark_risk
    portfolio_scenarios, \* self.portfolio_scenarios
    optimal_portfolio,   \* self.optimal_portfolio
    optimal_weights,     \* self.optimal_weights
    risk_boundaries,     \* self.risk_boundaries
    last_call,           \* the last method called on the optimizer and how it ended
    results,             \* self.results
    run_pc,              \* the stage run_optimization is about to call, or how it ended
    run_trace,           \* the stages the current run_optimization call has called
    run_results_before,  \* self.results when the current run_optimization call began
    rar_args,            \* argument of the last calculate_returns_and_risk call
    rar_result,          \* what that call returned
    cfg_args,            \* how and with what values a PortfolioConfig is constructed
    cfg_result,          \* the PortfolioConfig constructed, or what the construction raised
    cli_args,            \* the options main() parsed from the command line
    cli_config,          \* the configuration main() hands to the optimizer
    cli_entry,           \* main.py run as a script, or its functions called
    cli_out,             \* how the process ended, what it printed, showed and created
    sim_log,             \* what the last simulate_portfolios call sampled and evaluated
    returned,            \* what the last reporting method returned
    files                \* the CSV files written, by name

selVars == <<sel_args, sel_result>>
metVars == <<met_args, met_result, est_result>>
objVars == <<market, config, benchmark_data, portfolio_data, benchmark_return,
             benchmark_risk, portfolio_scenarios, optimal_portfolio,
             optimal_weights, risk_boundaries, last_call, results>>
runVars == <<run_pc, run_trace, run_results_before>>
fnVars == <<rar_args, rar_result, cfg_args, cfg_result, cli_args, cli_config,
            cli_entry, cli_out>>
outVars == <<sim_log, returned, files>>
vars == <<selVars, metVars, objVars, runVars, fnVars, outVars>>

----------------------------------------------------------------------------
(* Bounds of the model *)

\* fixed-point units to 1.0
Scale == 1000
\* longest array handed to the selector directly
MaxRecords == 3
\* largest config.number_of_scenarios
MaxScenarios == 2
\* longest price series handed to the estimator directly
MaxPrices == 3
\* largest number of assets asked of the weight sampler
MaxAssets == 3

\* values of the records handed to the selector directly (fixed point)
SelLevels == {0, 1, 2}
\* prices the data source may quote
PriceValues == {1, 2}
\* numbers of common trading days the data source may return
DayCounts == {1, 2, 3}
\* the weights the sampler may draw, in WDen-ths
WeightLevels == {0, 1, 2}
WDen == CHOOSE d \in WeightLevels : \A l \in WeightLevels : l <= d
\* config.delta_risk, in hundredths
DeltaRiskPct == {5, 50}

----------------------------------------------------------------------------
(* Floats *)

NaN == -3000000
NoneF == -2000000
PInf == 1000000
NInf == -1000000

IsFinite(x) == x \notin {NaN, NoneF, PInf, NInf}

\* IEEE comparisons: false as soon as one side is NaN; the infinities are ordered
\* by their integer codes
FLe(a, b) == a # NaN /\ b # NaN /\ a <= b
FEq(a, b) == a # NaN /\ b # NaN /\ a = b

Range(s) == {s[i] : i \in 1..Len(s)}

RECURSIVE SeqSum(_)
SeqSum(s) == IF s = <<>> THEN 0 ELSE Head(s) + SeqSum(Tail(s))

RECURSIVE SqrtIn(_, _, _)
SqrtIn(v, lo, hi) ==
    IF hi - lo <= 1 THEN lo
    ELSE LET mid == (lo + hi) \div 2
         IN  IF mid * mid <= v THEN SqrtIn(v, mid, hi) ELSE SqrtIn(v, lo, mid)

\* floor of the square root of v, 0 <= v < 46340^2
ISqrt(v) == SqrtIn(v, 0, 46340)

FloorDiv(n, d) == IF d < 0 THEN (0 - n) \div (0 - d) ELSE n \div d

\* x / y on floats: x and y finite; division by zero gives nan or an infinity
\* (numpy warns and goes on)
FDiv(x, y) ==
    IF y = 0 THEN (IF x = 0 THEN NaN ELSE IF x > 0 THEN PInf ELSE NInf)
    ELSE FloorDiv(x * Scale, y)

\* np.diff(a): a[i+1] - a[i]
NpDiff(a) == [i \in 1..(IF Len(a) = 0 THEN 0 ELSE Len(a) - 1) |-> a[i + 1] - a[i]]

\* a[1:]
From1(a) == IF a = <<>> THEN <<>> ELSE Tail(a)

\* a / b elementwise, arrays of one length
ElemDiv(a, b) == [i \in 1..Len(a) |-> FDiv(a[i], b[i])]

\* np.average(x) of a 1-D array: nan for an empty array
NpAverage(x) ==
    IF x = <<>> \/ NaN \in Range(x) \/ {PInf, NInf} \subseteq Range(x) THEN NaN
    ELSE IF PInf \in Range(x) THEN PInf
    ELSE IF NInf \in Range(x) THEN NInf
    ELSE FloorDiv(SeqSum(x), Len(x))

\* np.std(x), ddof = 0: sqrt(mean(|x - mean(x)|^2)); nan for an empty array
NpStd(x) ==
    IF x = <<>> \/ \E i \in 1..Len(x) : ~IsFinite(x[i]) THEN NaN
    ELSE LET m == FloorDiv(SeqSum(x), Len(x))
             sq == [i \in 1..Len(x) |-> (x[i] - m) * (x[i] - m)]
         IN  ISqrt(FloorDiv(SeqSum(sq), Len(x)))

\* np.min(x) of a non-empty array: nan as soon as one element is nan
NpMin(x) ==
    IF NaN \in Range(x) THEN NaN
    ELSE CHOOSE v \in Range(x) : \A u \in Range(x) : v <= u

\* np.max(x) of a non-empty array: nan as soon as one element is nan
NpMax(x) ==
    IF NaN \in Range(x) THEN NaN
    ELSE CHOOSE v \in Range(x) : \A u \in Range(x) : u <= v

\* np.where(mask)[0]: the 0-based positions of a that satisfy P, ascending
NpWhere(a, P(_)) ==
    LET pos == [i \in 1..Len(a) |-> i]
        hit == SelectSeq(pos, LAMBDA i : P(a[i]))
    IN  [k \in 1..Len(hit) |-> hit[k] - 1]

----------------------------------------------------------------------------
(* utils.py *)

Raised(kind) == [status |-> kind]

\* the sample standard deviation, ddof = 1: the divisor is one less than the
\* number of values
NpStdSample(x) ==
    IF x = <<>> \/ \E i \in 1..Len(x) : ~IsFinite(x[i]) THEN NaN
    ELSE IF Len(x) = 1 THEN NaN
    ELSE LET m == FloorDiv(SeqSum(x), Len(x))
             sq == [i \in 1..Len(x) |-> (x[i] - m) * (x[i] - m)]
         IN  ISqrt(FloorDiv(SeqSum(sq), Len(x) - 1))

\* the estimator with the sample standard deviation as risk
ReturnsAndSampleRisk(prices) ==
    LET returns == ElemDiv(NpDiff(prices), From1(prices))
    IN  [status |-> "ok", ret |-> NpAverage(returns), risk |-> NpStdSample(returns)]

\* calculate_returns_and_risk(prices)
calculate_returns_and_risk(prices) ==
    LET returns == ElemDiv(NpDiff(prices), From1(prices))
    IN  [status |-> "ok", ret |-> NpAverage(returns), risk |-> NpStd(returns)]

\* np.matmul(weights, asset_prices.T) for a 1-D weights and a 2-D asset_prices
\* (a sequence of rows): the dot product of weights with every row
NpMatmulT(weights, asset_prices) ==
    [r \in 1..Len(asset_prices) |->
        SeqSum([c \in 1..Len(weights) |-> weights[c] * asset_prices[r][c]])]

\* number of columns of a 2-D array with at least one row
NCols(asset_prices) == Len(asset_prices[1])

\* the same with each return divided by the earlier price
MetricsEarlierDenominator(weights, asset_prices) ==
    IF Len(weights) # NCols(asset_prices) THEN Raised("ValueError")
    ELSE LET portfolio_prices == NpMatmulT(weights, asset_prices)
             earlier == [i \in 1..(Len(portfolio_prices) - 1) |-> portfolio_prices[i]]
             portfolio_returns == ElemDiv(NpDiff(portfolio_prices), earlier)
         IN  [status |-> "ok",
              ret |-> NpAverage(portfolio_returns),
              risk |-> NpStd(portfolio_returns)]

\* the same pairing weights and assets as far as both go, without a shape check
MetricsCommonPrefix(weights, asset_prices) ==
    LET n == IF Len(weights) < NCols(asset_prices)
             THEN Len(weights) ELSE NCols(asset_prices)
        portfolio_prices ==
            [r \in 1..Len(asset_prices) |->
                SeqSum([c \in 1..n |-> weights[c] * asset_prices[r][c]])]
        portfolio_returns == ElemDiv(NpDiff(portfolio_prices), From1(portfolio_prices))
    IN  [status |-> "ok",
         ret |-> NpAverage(portfolio_returns),
         risk |-> NpStd(portfolio_returns)]

\* calculate_portfolio_metrics(weights, asset_prices); prices are in WDen-ths
\* because the weights are
calculate_portfolio_metrics(weights, asset_prices) ==
    IF Len(weights) # NCols(asset_prices) THEN Raised("ValueError")
    ELSE LET portfolio_prices == NpMatmulT(weights, asset_prices)
             portfolio_returns ==
                 ElemDiv(NpDiff(portfolio_prices), From1(portfolio_prices))
         IN  [status |-> "ok",
              ret |-> NpAverage(portfolio_returns),
              risk |-> NpStd(portfolio_returns)]

\* np.argmax that keeps the last occurrence of the maximum
NpArgmaxLast(x) ==
    (CHOOSE i \in 1..Len(x) :
        /\ \A j \in 1..Len(x) : x[j] <= x[i]
        /\ \A j \in (i + 1)..Len(x) : x[j] < x[i]) - 1

\* the first candidate, whatever its return
NpArgmaxFirst(x) == 0

\* the last candidate, whatever its return
NpArgmaxEnd(x) == Len(x) - 1

\* np.argmax(x) of a non-empty array, 0-based: the first nan if there is one,
\* otherwise the first occurrence of the maximum
NpArgmax(x) ==
    IF NaN \in Range(x)
    THEN (CHOOSE i \in 1..Len(x) : x[i] = NaN /\ \A j \in 1..(i - 1) : x[j] # NaN) - 1
    ELSE (CHOOSE i \in 1..Len(x) :
             /\ \A j \in 1..Len(x) : x[j] <= x[i]
             /\ \A j \in 1..(i - 1) : x[j] < x[i]) - 1

\* the selector preferring a single acceptable record
UseAcceptableIfAny(n_acceptable) == n_acceptable > 0

\* len(acceptable_portfolios) > 1
UseAcceptable(n_acceptable) == n_acceptable > 1

\* the records with risk <= max_risk
Acceptable(portfolio_array, max_risk) ==
    NpWhere(portfolio_array, LAMBDA p : FLe(p.risk, max_risk))

\* find_optimal_portfolio(portfolio_array, max_risk, min_risk); portfolio_array
\* is a sequence of [ret, risk] rows
find_optimal_portfolio(portfolio_array, max_risk, min_risk) ==
    LET acceptable_portfolios == Acceptable(portfolio_array, max_risk)
        pick(indices) ==
            LET candidate_portfolios ==
                    [k \in 1..Len(indices) |-> portfolio_array[indices[k] + 1]]
                best_idx ==
                    NpArgmax([k \in 1..Len(indices) |-> candidate_portfolios[k].ret])
            IN  [status |-> "ok",
                 best_portfolio |-> candidate_portfolios[best_idx + 1],
                 portfolio_idx |-> indices[best_idx + 1]]
    IN  IF UseAcceptable(Len(acceptable_portfolios)) THEN pick(acceptable_portfolios)
        ELSE LET min_risk_portfolios ==
                     NpWhere(portfolio_array, LAMBDA p : FEq(p.risk, min_risk))
             IN  IF Len(min_risk_portfolios) = 0 THEN Raised("ValueError")
                 ELSE pick(min_risk_portfolios)

\* x * n for a float x and an int n
FTimes(x, n) ==
    IF x = NaN THEN NaN
    ELSE IF x \in {PInf, NInf}
         THEN (IF n = 0 THEN NaN ELSE IF n > 0 THEN x ELSE 0 - x)
    ELSE x * n

\* the usual annualisation: the return by the days, the risk by their square root
AnnualizeSqrtTime(return_rate, risk, trade_days) ==
    IF return_rate = NoneF \/ risk = NoneF THEN Raised("TypeError")
    ELSE [status |-> "ok",
          annualized_return |-> FTimes(return_rate, trade_days),
          annualized_risk |-> FTimes(risk, ISqrt(trade_days))]

\* annualize_metrics(return_rate, risk, trade_days); None * int raises TypeError
annualize_metrics(return_rate, risk, trade_days) ==
    IF return_rate = NoneF \/ risk = NoneF THEN Raised("TypeError")
    ELSE [status |-> "ok",
          annualized_return |-> FTimes(return_rate, trade_days),
          annualized_risk |-> FTimes(risk, trade_days)]

----------------------------------------------------------------------------
(* Direct calls of the selector *)

NotCalled == [status |-> "not called"]
\* Python's None where an object is expected
None == [none |-> TRUE]

RECURSIVE SeqsUpTo(_, _)
\* the sequences of at most n elements of S
SeqsUpTo(S, n) ==
    IF n = 0 THEN {<<>>}
    ELSE LET shorter == SeqsUpTo(S, n - 1)
         IN  shorter \cup {Append(s, x) : s \in {t \in shorter : Len(t) = n - 1}, x \in S}

SelRecords == [ret : SelLevels, risk : SelLevels]

SelInputs ==
    [portfolio_array : SeqsUpTo(SelRecords, MaxRecords),
     max_risk : SelLevels \cup {-1},
     min_risk : SelLevels]

call_find_optimal_portfolio ==
    /\ sel_args # None
    /\ sel_result' = find_optimal_portfolio(sel_args.portfolio_array,
                                            sel_args.max_risk, sel_args.min_risk)
    /\ UNCHANGED <<sel_args, metVars, objVars, runVars, fnVars, outVars>>

----------------------------------------------------------------------------
(* Direct calls of the metric evaluator *)

\* the R x C arrays over S, as sequences of rows
Matrices(S, R, C) == [1..R -> [1..C -> S]]

MetInputs ==
    [weights : UNION {[1..n -> WeightLevels] : n \in 1..3},
     asset_prices : UNION {Matrices(PriceValues, r, c) : r \in DayCounts, c \in 1..2}]

\* the series whose day-d price is the sum over assets a of weight[a] x price of
\* asset a on day d, for a matrix with one row per day and one column per asset
WeightedSumSeries(weights, asset_prices) ==
    [d \in 1..Len(asset_prices) |->
        SeqSum([a \in 1..Len(weights) |-> weights[a] * asset_prices[d][a]])]

call_calculate_portfolio_metrics ==
    /\ met_args # None
    /\ met_result' = calculate_portfolio_metrics(met_args.weights, met_args.asset_prices)
    /\ est_result' =
         IF Len(met_args.weights) = NCols(met_args.asset_prices)
         THEN calculate_returns_and_risk(
                  WeightedSumSeries(met_args.weights, met_args.asset_prices))
         ELSE NotCalled
    /\ UNCHANGED <<met_args, selVars, objVars, runVars, fnVars, outVars>>

----------------------------------------------------------------------------
(* portfolio_optimizer.py: PortfolioOptimizer *)

\* self.portfolio_scenarios = [] of __init__
EmptyList == [empty_list |-> TRUE]

\* self.results = {} of __init__
EmptyDict == [empty_dict |-> TRUE]

PortfolioTickers == <<"AAPL", "GOOG">>

\* the defaults of PortfolioConfig's optimization parameters (delta_risk in
\* hundredths)
DefaultScenarios == 10000
DefaultDeltaRisk == 5
DefaultTradeDays == 252

Configs ==
    [number_of_scenarios : 1..MaxScenarios,
     delta_risk : DeltaRiskPct,
     trade_days_per_year : {DefaultTradeDays},
     portfolio_tickers : {PortfolioTickers}]

\* the cleaned, date-matched closing prices the data source returns: one benchmark
\* price and one row of asset prices per common trading day
Markets ==
    UNION {[benchmark : [1..l -> PriceValues],
            portfolio : Matrices(PriceValues, l, Len(PortfolioTickers))] : l \in DayCounts}

\* a sampler that does not normalise what it draws
WeightGridUnnormalised(n_assets) == [1..n_assets -> WeightLevels]

\* the vectors generate_random_portfolio_weights(n_assets) can return, on the grid:
\* a Dirichlet draw is a vector of n_assets shares of the whole
WeightGrid(n_assets) == {w \in [1..n_assets -> WeightLevels] : SeqSum(w) = WDen}

\* the grid in the order of its vectors read as numerals
GridRound(n_assets) ==
    LET grid == WeightGrid(n_assets)
        Before(v, w) ==
            \E c \in 1..n_assets : v[c] < w[c] /\ \A d \in 1..(c - 1) : v[d] = w[d]
    IN  [k \in 1..Cardinality(grid) |->
            CHOOSE w \in grid : Cardinality({v \in grid : Before(v, w)}) = k - 1]

\* what the sampler returns over the scenarios of a run, draws[i] in iteration i:
\* any vectors of the grid while the run has at most MaxScenarios scenarios; of
\* the longer runs the ones that draw one vector every time, and the one that goes
\* round the grid
SamplerDraws(number_of_scenarios, n_assets) ==
    IF number_of_scenarios <= MaxScenarios
    THEN [1..number_of_scenarios -> WeightGrid(n_assets)]
    ELSE {[i \in 1..number_of_scenarios |-> w] : w \in WeightGrid(n_assets)}
         \cup {[i \in 1..number_of_scenarios |->
                    GridRound(n_assets)[((i - 1) % Cardinality(WeightGrid(n_assets))) + 1]]}

Ended(op, status) == [op |-> op, status |-> status]

\* __init__
ObjInit ==
    /\ benchmark_data = None
    /\ portfolio_data = None
    /\ benchmark_return = NoneF
    /\ benchmark_risk = NoneF
    /\ portfolio_scenarios = EmptyList
    /\ optimal_portfolio = None
    /\ optimal_weights = None
    /\ risk_boundaries = None
    /\ results = EmptyDict
    /\ last_call = Ended("__init__", "ok")

\* the stages of run_optimization, in the order of its body
Stages == <<"download_data", "analyze_benchmark", "simulate_portfolios",
            "optimize_portfolio", "generate_results">>

StageNo(op) == CHOOSE i \in 1..Len(Stages) : Stages[i] = op

\* a run_optimization whose try block goes on to the next stage whatever the
\* stage did
AfterStageGoingOn(op, status) ==
    IF StageNo(op) = Len(Stages) THEN "returned" ELSE Stages[StageNo(op) + 1]

\* where run_optimization stands after the stage op ended with status: an
\* exception leaves the try block and is re-raised, the last stage returns
AfterStage(op, status) ==
    IF status # "ok" THEN "raised"
    ELSE IF StageNo(op) = Len(Stages) THEN "returned"
    ELSE Stages[StageNo(op) + 1]

\* no run_optimization call has been made on the object
NoRun == "no run"

\* a run_optimization call is in progress
InRun == \E i \in 1..Len(Stages) : run_pc = Stages[i]

\* who calls the method op: the user of the object, directly, or the
\* run_optimization call in progress, which then goes on or re-raises
Called(op) ==
    \/ /\ ~InRun
       /\ UNCHANGED runVars
    \/ /\ run_pc = op
       /\ run_trace' = Append(run_trace, op)
       /\ run_pc' = AfterStage(op, last_call'.status)
       /\ UNCHANGED run_results_before

\* what the data source answers to one download when it has nothing for the
\* tickers and dates asked, or cannot be reached: no rows
NoData == <<>>

\* the benchmark is downloaded and stored, then the portfolio; each
\* download_ticker_data raises ValueError on an empty answer, the second one
\* after self.benchmark_data has been assigned; the two frames are matched and
\* stored once both have come
download_data ==
    /\ \E bench \in {market.benchmark, NoData}, port \in {market.portfolio, NoData} :
          IF bench = NoData
          THEN /\ last_call' = Ended("download_data", "ValueError")
               /\ UNCHANGED <<benchmark_data, portfolio_data>>
          ELSE IF port = NoData
          THEN /\ benchmark_data' = [Close |-> bench]
               /\ last_call' = Ended("download_data", "ValueError")
               /\ UNCHANGED portfolio_data
          ELSE /\ benchmark_data' = [Close |-> bench]
               /\ portfolio_data' = [Close |-> port]
               /\ last_call' = Ended("download_data", "ok")
    /\ UNCHANGED <<market, config, benchmark_return, benchmark_risk,
                   portfolio_scenarios, optimal_portfolio, optimal_weights,
                   risk_boundaries, results, selVars, metVars, fnVars, outVars>>
    /\ Called("download_data")

analyze_benchmark ==
    /\ IF benchmark_data = None
       THEN /\ last_call' = Ended("analyze_benchmark", "TypeError")
            /\ UNCHANGED <<benchmark_return, benchmark_risk>>
       ELSE LET m == calculate_returns_and_risk(benchmark_data.Close)
            IN  /\ benchmark_return' = m.ret
                /\ benchmark_risk' = m.risk
                /\ last_call' = Ended("analyze_benchmark", "ok")
    /\ UNCHANGED <<market, config, benchmark_data, portfolio_data,
                   portfolio_scenarios, optimal_portfolio, optimal_weights,
                   risk_boundaries, results, selVars, metVars, fnVars, outVars>>
    /\ Called("analyze_benchmark")

\* a population that starts empty instead of with the benchmark
PopulationNoBenchmark(bench_return, bench_risk, weight_vector, portfolio_prices) ==
    LET m == [i \in 1..Len(weight_vector) |->
                 calculate_portfolio_metrics(weight_vector[i], portfolio_prices)]
    IN  [returns |-> [i \in 1..Len(weight_vector) |-> m[i].ret],
         risks |-> [i \in 1..Len(weight_vector) |-> m[i].risk],
         weights |-> weight_vector]

\* the population simulate_portfolios builds from the weights it draws
Population(bench_return, bench_risk, weight_vector, portfolio_prices) ==
    LET m(i) == calculate_portfolio_metrics(weight_vector[i], portfolio_prices)
    IN  [returns |-> <<bench_return>> \o [i \in 1..Len(weight_vector) |-> m(i).ret],
         risks |-> <<bench_risk>> \o [i \in 1..Len(weight_vector) |-> m(i).risk],
         weights |-> weight_vector]

\* a loop that drops a scenario whose evaluation fails and goes on to the next
SimulateLoopSkipping(i, draws, portfolio_prices, log) ==
    LET Evaluates(weights) ==
            calculate_portfolio_metrics(weights, portfolio_prices).status = "ok"
    IN  [status |-> "ok",
         weight_vector |-> SelectSeq(draws, Evaluates),
         evaluated |-> [k \in 1..Len(draws) |-> k]]

\* the for loop of simulate_portfolios from scenario i on, draws[k] being what the
\* sampler returns in iteration k: the weights are appended, then evaluated, and
\* the first exception of the evaluation leaves the loop and the method
SimulateLoop(i, draws, portfolio_prices, log) ==
    LET Raises(k) ==
            calculate_portfolio_metrics(draws[k], portfolio_prices).status # "ok"
        raising == {k \in i..Len(draws) : Raises(k)}
        last == IF raising = {} THEN Len(draws)
                ELSE CHOOSE k \in raising : \A j \in raising : k <= j
        iterations == [k \in 1..(last + 1 - i) |-> i + k - 1]
    IN  [status |-> IF raising = {} THEN log.status
                    ELSE calculate_portfolio_metrics(draws[last],
                                                     portfolio_prices).status,
         weight_vector |-> log.weight_vector
                               \o [k \in DOMAIN iterations |-> draws[iterations[k]]],
         evaluated |-> log.evaluated \o iterations]

simulate_portfolios ==
    /\ IF portfolio_data = None
       THEN /\ last_call' = Ended("simulate_portfolios", "TypeError")
            /\ sim_log' = [sampled |-> <<>>, evaluated |-> <<>>]
            /\ UNCHANGED portfolio_scenarios
       ELSE \E draws \in SamplerDraws(config.number_of_scenarios,
                                       Len(config.portfolio_tickers)) :
              \E out \in {SimulateLoop(1, draws, portfolio_data.Close,
                                        [status |-> "ok", weight_vector |-> <<>>,
                                         evaluated |-> <<>>])} :
                  /\ last_call' = Ended("simulate_portfolios", out.status)
                  /\ sim_log' = [sampled |-> out.weight_vector,
                                 evaluated |-> out.evaluated]
                  /\ IF out.status = "ok"
                     THEN portfolio_scenarios' =
                              Population(benchmark_return, benchmark_risk,
                                         out.weight_vector, portfolio_data.Close)
                     ELSE UNCHANGED portfolio_scenarios
    /\ UNCHANGED <<market, config, benchmark_data, portfolio_data, benchmark_return,
                   benchmark_risk, optimal_portfolio, optimal_weights,
                   risk_boundaries, results, selVars, metVars, fnVars,
                   returned, files>>
    /\ Called("simulate_portfolios")

\* a max_risk that leaves delta_risk out: the benchmark's risk itself
MaxRiskOfBenchmark(bench_risk, delta_risk) == bench_risk

\* benchmark_risk * (1 + delta_risk), delta_risk in hundredths
MaxRiskOf(bench_risk, delta_risk) ==
    IF delta_risk = NaN THEN NaN
    ELSE IF ~IsFinite(bench_risk) THEN bench_risk
    ELSE FloorDiv(bench_risk * (100 + delta_risk), 100)

\* np.column_stack((returns[1:], risks[1:]))
PortfolioArray(scenarios) ==
    [i \in 1..(Len(scenarios.returns) - 1) |->
        [ret |-> scenarios.returns[i + 1], risk |-> scenarios.risks[i + 1]]]

\* the minimum taken over the whole risk vector, benchmark included
MinRiskInputAll(scenarios) == scenarios.risks

\* the risks np.min is taken over
MinRiskInput(scenarios) == From1(scenarios.risks)

\* an optimize_portfolio that swallows every error and stores an empty selection
OptimizeOutcomeDefaulting(scenarios, bench_risk, delta_risk) ==
    [status |-> "ok",
     optimal_portfolio |-> [ret |-> 0, risk |-> 0],
     optimal_weights |-> <<>>,
     risk_boundaries |-> [min_risk |-> 0, max_risk |-> 0, risk_gap |-> <<0, 0>>]]

\* an optimize_portfolio that takes the weights at the record's position in the
\* whole population, benchmark included (the last record taking the first)
OptimizeOutcomeBenchmarkIndexed(scenarios, bench_risk, delta_risk) ==
    IF scenarios = EmptyList THEN Raised("TypeError")
    ELSE IF MinRiskInput(scenarios) = <<>> THEN Raised("ValueError")
    ELSE IF bench_risk = NoneF THEN Raised("TypeError")
    ELSE LET portfolio_array == PortfolioArray(scenarios)
             min_risk == NpMin(MinRiskInput(scenarios))
             max_risk == MaxRiskOf(bench_risk, delta_risk)
             found == find_optimal_portfolio(portfolio_array, max_risk, min_risk)
             args == [portfolio_array |-> portfolio_array,
                      max_risk |-> max_risk, min_risk |-> min_risk]
         IN  IF found.status # "ok"
             THEN [status |-> found.status, args |-> args, found |-> found]
             ELSE [status |-> "ok", args |-> args, found |-> found,
                   optimal_portfolio |-> found.best_portfolio,
                   optimal_weights |->
                       scenarios.weights[((found.portfolio_idx + 1)
                                              % Len(scenarios.weights)) + 1],
                   risk_boundaries |->
                       [min_risk |-> min_risk, max_risk |-> max_risk,
                        risk_gap |-> <<min_risk, max_risk>>]]

\* optimize_portfolio up to its stores: what it would raise, or the selector call
\* it makes and what it would store
OptimizeOutcome(scenarios, bench_risk, delta_risk) ==
    IF scenarios = EmptyList THEN Raised("TypeError")
    ELSE LET portfolio_array == PortfolioArray(scenarios)
         IN  IF MinRiskInput(scenarios) = <<>> THEN Raised("ValueError")
             ELSE IF bench_risk = NoneF THEN Raised("TypeError")
             ELSE LET min_risk == NpMin(MinRiskInput(scenarios))
                      max_risk == MaxRiskOf(bench_risk, delta_risk)
                      found == find_optimal_portfolio(portfolio_array, max_risk, min_risk)
                      args == [portfolio_array |-> portfolio_array,
                               max_risk |-> max_risk, min_risk |-> min_risk]
                  IN  IF found.status # "ok"
                      THEN [status |-> found.status, args |-> args, found |-> found]
                      ELSE [status |-> "ok", args |-> args, found |-> found,
                            optimal_portfolio |-> found.best_portfolio,
                            optimal_weights |-> scenarios.weights[found.portfolio_idx + 1],
                            risk_boundaries |->
                                [min_risk |-> min_risk, max_risk |-> max_risk,
                                 risk_gap |-> <<min_risk, max_risk>>]]

\* an optimize_portfolio that cuts the benchmark off the stored population instead
\* of slicing copies of its arrays
optimize_portfolio_in_place ==
    LET out == OptimizeOutcome(portfolio_scenarios, benchmark_risk, config.delta_risk)
    IN  /\ last_call' = Ended("optimize_portfolio", out.status)
        /\ IF "args" \in DOMAIN out
           THEN sel_args' = out.args /\ sel_result' = out.found
           ELSE UNCHANGED selVars
        /\ IF out.status = "ok"
           THEN /\ optimal_portfolio' = out.optimal_portfolio
                /\ optimal_weights' = out.optimal_weights
                /\ risk_boundaries' = out.risk_boundaries
                /\ portfolio_scenarios' =
                       [portfolio_scenarios EXCEPT !.returns = From1(@),
                                                   !.risks = From1(@)]
           ELSE UNCHANGED <<optimal_portfolio, optimal_weights, risk_boundaries,
                            portfolio_scenarios>>
        /\ UNCHANGED <<market, config, benchmark_data, portfolio_data, benchmark_return,
                       benchmark_risk, results, metVars, fnVars, outVars>>
        /\ Called("optimize_portfolio")

optimize_portfolio ==
    LET out == OptimizeOutcome(portfolio_scenarios, benchmark_risk, config.delta_risk)
    IN  /\ last_call' = Ended("optimize_portfolio", out.status)
        /\ IF "args" \in DOMAIN out
           THEN sel_args' = out.args /\ sel_result' = out.found
           ELSE UNCHANGED selVars
        /\ IF out.status = "ok"
           THEN /\ optimal_portfolio' = out.optimal_portfolio
                /\ optimal_weights' = out.optimal_weights
                /\ risk_boundaries' = out.risk_boundaries
           ELSE UNCHANGED <<optimal_portfolio, optimal_weights, risk_boundaries>>
        /\ UNCHANGED <<market, config, benchmark_data, portfolio_data, benchmark_return,
                       benchmark_risk, portfolio_scenarios, results, metVars, fnVars, outVars>>
        /\ Called("optimize_portfolio")

\* the dictionary generate_results builds
ResultsOf(optimal, weights, bench_return, bench_risk, boundaries, scenarios, cfg) ==
    LET annual == annualize_metrics(optimal.ret, optimal.risk, cfg.trade_days_per_year)
        annual_benchmark ==
            annualize_metrics(bench_return, bench_risk, cfg.trade_days_per_year)
        n == IF Len(cfg.portfolio_tickers) < Len(weights)
             THEN Len(cfg.portfolio_tickers) ELSE Len(weights)
    IN  IF annual.status # "ok" THEN annual
        ELSE IF annual_benchmark.status # "ok" THEN annual_benchmark
        ELSE [status |-> "ok",
              optimal_portfolio |->
                  [daily_return |-> optimal.ret,
                   daily_risk |-> optimal.risk,
                   annual_return |-> annual.annualized_return,
                   annual_risk |-> annual.annualized_risk,
                   weights |-> [i \in 1..n |-> <<cfg.portfolio_tickers[i], weights[i]>>]],
              benchmark |->
                  [daily_return |-> bench_return,
                   daily_risk |-> bench_risk,
                   annual_return |-> annual_benchmark.annualized_return,
                   annual_risk |-> annual_benchmark.annualized_risk],
              risk_boundaries |-> boundaries,
              simulation_stats |->
                  [total_scenarios |-> cfg.number_of_scenarios,
                   min_risk |-> NpMin(From1(scenarios.risks)),
                   max_risk |-> NpMax(From1(scenarios.risks)),
                   min_return |-> NpMin(From1(scenarios.returns)),
                   max_return |-> NpMax(From1(scenarios.returns))]]

\* generate_results: self.optimal_portfolio[0] raises TypeError while the
\* selection is None; self.results is assigned once the dictionary is built
generate_results ==
    /\ IF optimal_portfolio = None
       THEN /\ last_call' = Ended("generate_results", "TypeError")
            /\ UNCHANGED results
       ELSE LET out == ResultsOf(optimal_portfolio, optimal_weights, benchmark_return,
                                 benchmark_risk, risk_boundaries, portfolio_scenarios,
                                 config)
            IN  /\ last_call' = Ended("generate_results", out.status)
                /\ results' = IF out.status = "ok"
                              THEN [k \in DOMAIN out \ {"status"} |-> out[k]]
                              ELSE results
    /\ UNCHANGED <<market, config, benchmark_data, portfolio_data, benchmark_return,
                   benchmark_risk, portfolio_scenarios, optimal_portfolio,
                   optimal_weights, risk_boundaries, selVars, metVars, fnVars, outVars>>
    /\ Called("generate_results")

\* run_optimization enters its try block; the stages follow, each called by the
\* method of its name
run_optimization ==
    /\ ~InRun
    /\ run_pc' = Stages[1]
    /\ run_trace' = <<>>
    /\ run_results_before' = results
    /\ UNCHANGED <<selVars, metVars, objVars, fnVars, outVars>>

----------------------------------------------------------------------------
(* Specifications *)

\* the markets the object's whole life is explored on: a single common trading
\* day; a calm benchmark beside a volatile and a flat asset; a volatile benchmark
\* beside two calmer assets
LifeMarkets ==
    {[benchmark |-> <<1>>, portfolio |-> <<<<1, 1>>>>],
     [benchmark |-> <<1, 1, 2>>, portfolio |-> <<<<1, 1>>, <<2, 1>>, <<1, 1>>>>],
     [benchmark |-> <<1, 2, 1>>, portfolio |-> <<<<1, 2>>, <<1, 1>>, <<2, 1>>>>]}

\* no run_optimization call yet
RunIdle == run_pc = NoRun /\ run_trace = <<>> /\ run_results_before = EmptyDict

\* file names handed to save_results: its default and one other
Filenames == {"portfolio_results.csv", "results.csv"}

\* the files main() writes into its output directory, 'output' by default
ResultsFile == "output/portfolio_results.csv"
PlotFile == "output/portfolio_optimization.png"

\* a name under which no file has been written
NoFile == [no_file |-> TRUE]

\* nothing simulated, reported or written yet
OutIdle ==
    /\ sim_log = [sampled |-> <<>>, evaluated |-> <<>>]
    /\ returned = NotCalled
    /\ files = [f \in Filenames \cup {ResultsFile, PlotFile} |-> NoFile]

\* none of the functions and constructors below has been called
FnIdle ==
    /\ rar_args = None /\ rar_result = NotCalled
    /\ cfg_args = None /\ cfg_result = NotCalled
    /\ cli_args = None /\ cli_config = NotCalled /\ cli_out = NotCalled
    /\ cli_entry = None

\* the optimizer object, from construction on
Init ==
    /\ market \in LifeMarkets
    /\ config \in Configs
    /\ ObjInit
    /\ sel_args = None /\ sel_result = NotCalled
    /\ met_args = None /\ met_result = NotCalled /\ est_result = NotCalled
    /\ RunIdle /\ OutIdle /\ FnIdle

Next ==
    \/ download_data
    \/ analyze_benchmark
    \/ simulate_portfolios
    \/ optimize_portfolio

Spec == Init /\ [][Next]_vars

\* optimize_portfolio on every optimizer that has downloaded its data, analysed
\* the benchmark and simulated once
InitOptimize ==
    /\ market \in Markets
    /\ config \in Configs
    /\ benchmark_data = [Close |-> market.benchmark]
    /\ portfolio_data = [Close |-> market.portfolio]
    /\ benchmark_return = calculate_returns_and_risk(market.benchmark).ret
    /\ benchmark_risk = calculate_returns_and_risk(market.benchmark).risk
    /\ \E weight_vector \in [1..config.number_of_scenarios ->
                               WeightGrid(Len(config.portfolio_tickers))] :
           portfolio_scenarios =
               Population(benchmark_return, benchmark_risk, weight_vector,
                          market.portfolio)
    /\ optimal_portfolio = None
    /\ optimal_weights = None
    /\ risk_boundaries = None
    /\ results = EmptyDict
    /\ last_call = Ended("simulate_portfolios", "ok")
    /\ sel_args = None /\ sel_result = NotCalled
    /\ met_args = None /\ met_result = NotCalled /\ est_result = NotCalled
    /\ RunIdle /\ OutIdle /\ FnIdle

NextOptimize == optimize_portfolio

SpecOptimize == InitOptimize /\ [][NextOptimize]_vars

\* an object that is constructed and never used (the other specifications leave
\* the optimizer alone)
Idle ==
    /\ market = [benchmark |-> <<1, 1>>, portfolio |-> <<<<1, 1>>, <<1, 1>>>>]
    /\ config = [number_of_scenarios |-> 1, delta_risk |-> DefaultDeltaRisk,
                 trade_days_per_year |-> DefaultTradeDays,
                 portfolio_tickers |-> PortfolioTickers]
    /\ ObjInit

\* find_optimal_portfolio called directly on every small input
InitSelector ==
    /\ sel_args \in SelInputs
    /\ sel_result = NotCalled
    /\ met_args = None /\ met_result = NotCalled /\ est_result = NotCalled
    /\ Idle /\ RunIdle /\ OutIdle /\ FnIdle

NextSelector == call_find_optimal_portfolio

SpecSelector == InitSelector /\ [][NextSelector]_vars

\* calculate_portfolio_metrics called directly on every small input
InitMetrics ==
    /\ met_args \in MetInputs
    /\ met_result = NotCalled /\ est_result = NotCalled
    /\ sel_args = None /\ sel_result = NotCalled
    /\ Idle /\ RunIdle /\ OutIdle /\ FnIdle

NextMetrics == call_calculate_portfolio_metrics

SpecMetrics == InitMetrics /\ [][NextMetrics]_vars

----------------------------------------------------------------------------
(* Properties of find_optimal_portfolio (SpecSelector) *)

SelCalled == sel_args # None /\ sel_result # NotCalled

\* 1-based positions of the records with risk <= max_risk
AcceptableSet(a) ==
    {i \in 1..Len(a.portfolio_array) :
        /\ a.portfolio_array[i].risk # NaN /\ a.max_risk # NaN
        /\ a.portfolio_array[i].risk <= a.max_risk}

\* 1-based positions of the records with risk == min_risk
MinRiskSet(a) ==
    {i \in 1..Len(a.portfolio_array) :
        a.min_risk # NaN /\ a.portfolio_array[i].risk = a.min_risk}

\* the candidates of the branch taken
CandidateSet(a) ==
    IF Cardinality(AcceptableSet(a)) > 1 THEN AcceptableSet(a) ELSE MinRiskSet(a)

\* the result is the record at 1-based position i
Returns(i) ==
    /\ sel_result.status = "ok"
    /\ sel_result.portfolio_idx = i - 1
    /\ sel_result.best_portfolio = sel_args.portfolio_array[i]

\* C1: when more than one record has risk <= max_risk, the returned index is that
\* of a record with risk <= max_risk whose return is >= the return of every other
\* such record, and the returned metrics are that record's
C1_MainBranchPicksBestAcceptable ==
    (SelCalled /\ Cardinality(AcceptableSet(sel_args)) > 1) =>
        \E i \in AcceptableSet(sel_args) :
            /\ Returns(i)
            /\ \A j \in AcceptableSet(sel_args) :
                   sel_args.portfolio_array[j].ret <= sel_args.portfolio_array[i].ret

\* the main branch returned a record that is neither the first one nor the one
\* with the highest return overall
C1_Witness ==
    /\ SelCalled
    /\ Cardinality(AcceptableSet(sel_args)) > 1
    /\ sel_result.status = "ok"
    /\ sel_result.portfolio_idx > 0
    /\ \E j \in 1..Len(sel_args.portfolio_array) :
           sel_args.portfolio_array[j].ret > sel_result.best_portfolio.ret

\* C2: when zero or one record has risk <= max_risk, the returned record is the one
\* with the greatest return among the records whose risk equals min_risk (the call
\* raises when there is no such record)
C2_FallbackPicksBestMinRisk ==
    (SelCalled /\ Cardinality(AcceptableSet(sel_args)) <= 1) =>
        IF MinRiskSet(sel_args) = {} THEN sel_result.status = "ValueError"
        ELSE \E i \in MinRiskSet(sel_args) :
                 /\ Returns(i)
                 /\ \A j \in MinRiskSet(sel_args) :
                        sel_args.portfolio_array[j].ret
                            <= sel_args.portfolio_array[i].ret

\* the fallback discarded the single acceptable record for a min_risk record whose
\* risk is above max_risk and whose return is not the highest
C2_Witness ==
    /\ SelCalled
    /\ Cardinality(AcceptableSet(sel_args)) = 1
    /\ sel_result.status = "ok"
    /\ sel_result.best_portfolio.risk > sel_args.max_risk
    /\ (sel_result.portfolio_idx + 1) \notin AcceptableSet(sel_args)
    /\ \E j \in 1..Len(sel_args.portfolio_array) :
           sel_args.portfolio_array[j].ret > sel_result.best_portfolio.ret

\* C4: in either branch, among the candidates that share the maximum return the one
\* at the lowest position of the input is returned
C4_TieBreakFirstOccurrence ==
    (SelCalled /\ CandidateSet(sel_args) # {}) =>
        \E i \in CandidateSet(sel_args) :
            /\ Returns(i)
            /\ \A j \in CandidateSet(sel_args) :
                   /\ sel_args.portfolio_array[j].ret <= sel_args.portfolio_array[i].ret
                   /\ sel_args.portfolio_array[j].ret = sel_args.portfolio_array[i].ret
                          => i <= j

\* a tie for the maximum return among the candidates, in the fallback branch, with
\* the tied records apart in the input
C4_Witness ==
    /\ SelCalled
    /\ sel_result.status = "ok"
    /\ Cardinality(AcceptableSet(sel_args)) <= 1
    /\ \E j \in CandidateSet(sel_args) :
           /\ j > sel_result.portfolio_idx + 2
           /\ sel_args.portfolio_array[j].ret = sel_result.best_portfolio.ret

----------------------------------------------------------------------------
(* Properties of optimize_portfolio (SpecOptimize) *)

OptimizeCalled == last_call.op = "optimize_portfolio"

\* the non-benchmark risks of the population
ScenarioRisks ==
    {portfolio_scenarios.risks[i] : i \in 2..Len(portfolio_scenarios.risks)}

\* 1-based position of the first record of S with the highest return
FirstBest(a, S) ==
    CHOOSE i \in S :
        \A j \in S : /\ a.portfolio_array[j].ret <= a.portfolio_array[i].ret
                     /\ a.portfolio_array[j].ret = a.portfolio_array[i].ret => i <= j

\* the naive policy: the best return among the acceptable records if there is one,
\* otherwise the best return among the records of minimal risk
NaivePick(a) ==
    IF AcceptableSet(a) # {} THEN FirstBest(a, AcceptableSet(a))
    ELSE FirstBest(a, MinRiskSet(a))

\* exactly one record of the call is acceptable and the selector returns another
\* record, or none
DiscardsSingleAcceptable(arr, maxr) ==
    LET a == [portfolio_array |-> arr, max_risk |-> maxr,
              min_risk |-> NpMin([i \in 1..Len(arr) |-> arr[i].risk])]
        found == find_optimal_portfolio(arr, maxr, a.min_risk)
    IN  /\ Cardinality(AcceptableSet(a)) = 1
        /\ (found.status # "ok" \/ (found.portfolio_idx + 1) \notin AcceptableSet(a))

\* C3 as stated: with min_risk the minimum over the records and max_risk =
\* benchmark_risk x (1 + delta_risk), there is a population with exactly one
\* acceptable record for which the selector returns another record: one the engine
\* can draw on this market, or any small array of records
C3_FallbackMayDiscardSingleAcceptable ==
    \/ \E weight_vector \in [1..config.number_of_scenarios ->
                               WeightGrid(Len(config.portfolio_tickers))] :
           DiscardsSingleAcceptable(
               PortfolioArray(Population(benchmark_return, benchmark_risk,
                                         weight_vector, market.portfolio)),
               MaxRiskOf(benchmark_risk, config.delta_risk))
    \/ \E arr \in SeqsUpTo(SelRecords, MaxRecords) \ {<<>>}, maxr \in SelLevels \cup {-1} :
           DiscardsSingleAcceptable(arr, maxr)

\* C3 amended: in optimize_portfolio, when exactly one record has risk <= max_risk
\* the fallback returns that very record (its risk is min_risk), and in every case
\* the record selected is the one the naive policy selects
C3_SingleAcceptableIsReturned ==
    (OptimizeCalled /\ sel_args # None) =>
        /\ Cardinality(AcceptableSet(sel_args)) = 1 =>
               \E i \in AcceptableSet(sel_args) : Returns(i) /\ i \in MinRiskSet(sel_args)
        /\ sel_result.status = "ok" => Returns(NaivePick(sel_args))
        /\ AcceptableSet(sel_args) # {} => sel_result.status = "ok"

\* exactly one of several records is acceptable and it is the one selected
C3_Witness ==
    /\ OptimizeCalled /\ sel_args # None
    /\ Len(sel_args.portfolio_array) > 1
    /\ Cardinality(AcceptableSet(sel_args)) = 1
    /\ sel_result.status = "ok"
    /\ (sel_result.portfolio_idx + 1) \in AcceptableSet(sel_args)
    /\ sel_result.portfolio_idx > 0
    /\ benchmark_risk > 0
    /\ sel_result.best_portfolio.risk > benchmark_risk

\* C5: on a population with at least one non-benchmark record the fallback
\* candidate set (risk == min_risk) is never empty, and optimize_portfolio
\* selects a record of the population
C5_FallbackCandidatesNeverEmpty ==
    (OptimizeCalled /\ portfolio_scenarios # EmptyList
        /\ Len(portfolio_scenarios.weights) >= 1 /\ sel_args # None) =>
        /\ MinRiskSet(sel_args) # {}
        /\ last_call.status = "ok"
        /\ optimal_portfolio \in Range(PortfolioArray(portfolio_scenarios))

\* C8: min_risk is the minimum over the K non-benchmark risks only, max_risk is
\* benchmark_risk x (1 + delta_risk), and the selector is handed these two values
\* and the K non-benchmark records
C8_RiskBoundaries ==
    OptimizeCalled =>
        LET K == Len(portfolio_scenarios.weights)
        IN  /\ sel_args # None
            /\ Len(sel_args.portfolio_array) = K
            /\ \A i \in 1..K :
                   sel_args.portfolio_array[i] =
                       [ret |-> portfolio_scenarios.returns[i + 1],
                        risk |-> portfolio_scenarios.risks[i + 1]]
            /\ sel_args.min_risk \in ScenarioRisks
            /\ NaN \notin ScenarioRisks => \A r \in ScenarioRisks : sel_args.min_risk <= r
            /\ sel_args.max_risk =
                   IF benchmark_risk = NaN THEN NaN
                   ELSE (benchmark_risk * (100 + config.delta_risk)) \div 100
            /\ last_call.status = "ok" =>
                   risk_boundaries =
                       [min_risk |-> sel_args.min_risk, max_risk |-> sel_args.max_risk,
                        risk_gap |-> <<sel_args.min_risk, sel_args.max_risk>>]

\* the benchmark's risk is below every scenario's and is not the stored min_risk
C8_Witness ==
    /\ OptimizeCalled /\ last_call.status = "ok"
    /\ benchmark_risk > 0 /\ NaN \notin ScenarioRisks
    /\ \A r \in ScenarioRisks : benchmark_risk < r
    /\ risk_boundaries.min_risk > benchmark_risk
    /\ Len(portfolio_scenarios.weights) > 1

----------------------------------------------------------------------------
(* Properties of the optimizer object (Spec) *)

\* a population holding the benchmark record alone
BenchmarkOnly ==
    [returns |-> <<benchmark_return>>, risks |-> <<benchmark_risk>>, weights |-> <<>>]

\* C6: selection on an empty set of non-benchmark records raises, and nothing of
\* the selection is stored
C6_EmptyPopulationFails ==
    /\ (OptimizeCalled /\ portfolio_scenarios = EmptyList) =>
           /\ last_call.status \in {"TypeError", "ValueError"}
           /\ optimal_portfolio = None
           /\ optimal_weights = None
           /\ risk_boundaries = None
    /\ DOMAIN OptimizeOutcome(EmptyList, benchmark_risk, config.delta_risk) = {"status"}
    /\ OptimizeOutcome(BenchmarkOnly, benchmark_risk, config.delta_risk)
           = Raised("ValueError")
    /\ \A maxr \in SelLevels, minr \in SelLevels :
           find_optimal_portfolio(<<>>, maxr, minr) = Raised("ValueError")

\* optimize_portfolio was called with the benchmark analysed and nothing simulated
C6_Witness ==
    /\ last_call = Ended("optimize_portfolio", "TypeError")
    /\ portfolio_scenarios = EmptyList
    /\ benchmark_risk # NoneF
    /\ portfolio_data # None

\* C7: after a completed simulate_portfolios the population holds K+1 returns, K+1
\* risks and K weight vectors, with the benchmark's return and risk at position 0,
\* however many simulations came before
C7_PopulationShape ==
    /\ portfolio_scenarios # EmptyList =>
           /\ Len(portfolio_scenarios.returns) = config.number_of_scenarios + 1
           /\ Len(portfolio_scenarios.risks) = config.number_of_scenarios + 1
           /\ Len(portfolio_scenarios.weights) = config.number_of_scenarios
    /\ last_call = Ended("simulate_portfolios", "ok") =>
           /\ portfolio_scenarios.returns[1] = benchmark_return
           /\ portfolio_scenarios.risks[1] = benchmark_risk

\* a second simulation replaced the population an earlier optimize_portfolio read
C7_Witness ==
    /\ last_call = Ended("simulate_portfolios", "ok")
    /\ sel_args # None
    /\ benchmark_return # NoneF
    /\ sel_args.portfolio_array # PortfolioArray(portfolio_scenarios)
    /\ Len(portfolio_scenarios.weights) = config.number_of_scenarios

----------------------------------------------------------------------------
(* Properties of calculate_portfolio_metrics (SpecMetrics); the matrix has one row
   per day and one column per asset, the layout simulate_portfolios passes *)

MetCalled == met_args # None /\ met_result # NotCalled

\* C9: with as many weights as assets and at least 2 days, the result is that of
\* calculate_returns_and_risk on the weighted-sum series, returns being taken over
\* the later price
C9_SameAsEstimatorOnWeightedSeries ==
    (MetCalled /\ Len(met_args.weights) = NCols(met_args.asset_prices)
        /\ Len(met_args.asset_prices) >= 2) =>
        LET s == WeightedSumSeries(met_args.weights, met_args.asset_prices)
        IN  /\ met_result.status = "ok"
            /\ est_result.status = "ok"
            /\ met_result.ret = est_result.ret
            /\ met_result.risk = est_result.risk
            /\ (Len(s) = 2 /\ s[2] # 0) =>
                   /\ met_result.ret = ((s[2] - s[1]) * Scale) \div s[2]
                   /\ met_result.risk = 0

\* a mixed portfolio over three days with a non-zero risk
C9_Witness ==
    /\ MetCalled
    /\ Len(met_args.weights) = NCols(met_args.asset_prices)
    /\ Len(met_args.asset_prices) = 3
    /\ \A a \in 1..Len(met_args.weights) : met_args.weights[a] > 0
    /\ Len(met_args.weights) = 2
    /\ met_result.status = "ok"
    /\ met_result.risk > 0
    /\ met_result.ret < 0

\* C10: a weights vector whose length differs from the number of assets makes the
\* call raise, never return a metric pair
C10_DimensionMismatchRaises ==
    (MetCalled /\ Len(met_args.weights) # NCols(met_args.asset_prices)) =>
        met_result = Raised("ValueError")

\* as many weights as days, but not as assets: the call raised
C10_Witness ==
    /\ MetCalled
    /\ Len(met_args.weights) # NCols(met_args.asset_prices)
    /\ Len(met_args.weights) = Len(met_args.asset_prices)
    /\ met_result = Raised("ValueError")

----------------------------------------------------------------------------
(* calculate_portfolio_metrics and its documented matrix layout (SpecMetrics) *)

\* the weighted-sum series of a matrix with one row per asset and one column per
\* day, the layout of the docstring and of the unit test
DocumentedSeries(weights, asset_prices) ==
    [d \in 1..NCols(asset_prices) |->
        SeqSum([a \in 1..Len(weights) |-> weights[a] * asset_prices[a][d]])]

\* C11: given the matrix in the documented layout (n_assets rows, n_days columns)
\* and n_assets weights, calculate_portfolio_metrics returns the return and risk
\* of the n_days-long weighted-sum series
C11_DocumentedLayoutAccepted ==
    (MetCalled /\ Len(met_args.weights) = Len(met_args.asset_prices)) =>
        met_result = calculate_returns_and_risk(
                         DocumentedSeries(met_args.weights, met_args.asset_prices))

----------------------------------------------------------------------------
(* Direct calls of the Return/Risk estimator *)

\* prices handed to the estimator directly: zero and negative ones too
EstPrices == {-1, 0, 1, 2}

\* the series of test_calculate_returns_and_risk_basic
TestPrices == <<100, 105, 102, 108, 110>>

RarInputs == [prices : SeqsUpTo(EstPrices, MaxPrices) \cup {TestPrices}]

call_calculate_returns_and_risk ==
    /\ rar_args # None
    /\ rar_result' = calculate_returns_and_risk(rar_args.prices)
    /\ UNCHANGED <<rar_args, cfg_args, cfg_result, cli_args, cli_config, cli_entry, cli_out,
                   selVars, metVars, objVars, runVars, outVars>>

\* calculate_returns_and_risk called directly on every small series
InitEstimator ==
    /\ rar_args \in RarInputs
    /\ rar_result = NotCalled
    /\ cfg_args = None /\ cfg_result = NotCalled
    /\ cli_args = None /\ cli_config = NotCalled /\ cli_out = NotCalled
    /\ cli_entry = None
    /\ sel_args = None /\ sel_result = NotCalled
    /\ met_args = None /\ met_result = NotCalled /\ est_result = NotCalled
    /\ Idle /\ RunIdle /\ OutIdle

NextEstimator == call_calculate_returns_and_risk

SpecEstimator == InitEstimator /\ [][NextEstimator]_vars

----------------------------------------------------------------------------
(* Properties of calculate_returns_and_risk (SpecEstimator) *)

RarCalled == rar_args # None /\ rar_result # NotCalled

Abs(x) == IF x < 0 THEN 0 - x ELSE x

\* C12: for a series p of L >= 2 prices the result is the arithmetic mean and
\* the population standard deviation (divisor L-1, the number of returns) of the
\* L-1 returns (p[i+1] - p[i]) / p[i+1]
C12_LaterPriceReturnsMeanAndStd ==
    (RarCalled /\ Len(rar_args.prices) >= 2 /\ 0 \notin Range(rar_args.prices)) =>
        LET p == rar_args.prices
            n == Len(p) - 1
            r == [i \in 1..n |-> FloorDiv((p[i + 1] - p[i]) * Scale, p[i + 1])]
            mean == FloorDiv(SeqSum(r), n)
            variance == FloorDiv(SeqSum([i \in 1..n |-> (r[i] - mean) * (r[i] - mean)]), n)
        IN  /\ rar_result.status = "ok"
            /\ rar_result.ret = mean
            /\ rar_result.risk = ISqrt(variance)

\* three positive prices that rise and fall: two different returns, a risk above 0
C12_Witness ==
    /\ RarCalled
    /\ Len(rar_args.prices) = 3
    /\ \A i \in 1..3 : rar_args.prices[i] > 0
    /\ rar_args.prices[1] < rar_args.prices[2] /\ rar_args.prices[3] < rar_args.prices[2]
    /\ rar_result.status = "ok"
    /\ rar_result.risk > 0

\* each price change divided by the earlier price
EarlierPriceReturns(p) ==
    [i \in 1..(Len(p) - 1) |-> FDiv(p[i + 1] - p[i], p[i])]

\* C13: on [100, 105, 102, 108, 110] the mean return and the risk are within 1e-6
\* of the mean and population standard deviation of the returns taken over the
\* earlier price, 0.05, -0.02857, 0.05882, 0.01852
C13_MatchesEarlierPriceReturns ==
    (RarCalled /\ rar_args.prices = TestPrices) =>
        /\ Abs(rar_result.ret - NpAverage(EarlierPriceReturns(TestPrices))) * 1000000
               < Scale
        /\ Abs(rar_result.risk - NpStd(EarlierPriceReturns(TestPrices))) * 1000000
               < Scale

\* C14: a series of fewer than 2 prices, or with a zero or negative price, makes
\* calculate_returns_and_risk fail instead of returning a pair
C14_ShortOrNonPositiveSeriesRejected ==
    (RarCalled /\ (Len(rar_args.prices) < 2
                      \/ \E i \in 1..Len(rar_args.prices) : rar_args.prices[i] <= 0)) =>
        rar_result.status # "ok"

----------------------------------------------------------------------------
(* Properties of the weight sampler and of the stored weights (Spec) *)

\* w has n components, none negative, that sum to 1
OnSimplex(w, n) ==
    /\ Len(w) = n
    /\ \A i \in 1..Len(w) : w[i] >= 0
    /\ SeqSum(w) = WDen

\* C15: every vector the sampler returns for N >= 1 assets has N components, all
\* >= 0, summing to 1, for N = 1 it is [1.0], and every weights vector stored in
\* the population satisfies the same
C15_WeightsOnSimplex ==
    /\ \A n \in 1..MaxAssets : \A w \in WeightGrid(n) : OnSimplex(w, n)
    /\ WeightGrid(1) = {<<WDen>>}
    /\ portfolio_scenarios # EmptyList =>
           \A i \in 1..Len(portfolio_scenarios.weights) :
               OnSimplex(portfolio_scenarios.weights[i], Len(config.portfolio_tickers))

\* a population of two different weight vectors, one of them all on one asset
C15_Witness ==
    /\ last_call = Ended("simulate_portfolios", "ok")
    /\ Len(portfolio_scenarios.weights) = 2
    /\ portfolio_scenarios.weights[1] # portfolio_scenarios.weights[2]
    /\ \E i \in 1..2 : portfolio_scenarios.weights[1][i] = 0

----------------------------------------------------------------------------
(* The optimizer driven by run_optimization and by direct calls *)

\* trade_days_per_year of the configurations run
TradeDays == {250, DefaultTradeDays}

RunConfigs ==
    [number_of_scenarios : {1},
     delta_risk : {DefaultDeltaRisk},
     trade_days_per_year : TradeDays,
     portfolio_tickers : {PortfolioTickers}]

InitRun ==
    /\ market \in LifeMarkets
    /\ config \in RunConfigs
    /\ ObjInit
    /\ sel_args = None /\ sel_result = NotCalled
    /\ met_args = None /\ met_result = NotCalled /\ est_result = NotCalled
    /\ RunIdle /\ OutIdle /\ FnIdle

NextRun ==
    \/ run_optimization
    \/ download_data
    \/ analyze_benchmark
    \/ simulate_portfolios
    \/ optimize_portfolio
    \/ generate_results

SpecRun == InitRun /\ [][NextRun]_vars

----------------------------------------------------------------------------
(* Properties of annualize_metrics and generate_results (SpecRun) *)

\* daily returns and risks handed to the annualizer directly (fixed point)
AnnLevels == {-7, 0, 1, 20}

\* C16: annualize_metrics(r, s, d) is (r x d, s x d) for d > 0, and the results
\* report the annual return and risk of the optimal portfolio and of the
\* benchmark as their daily values times trade_days_per_year
C16_AnnualizeIsLinear ==
    /\ \A r \in AnnLevels, s \in AnnLevels, d \in TradeDays \cup {1} :
           annualize_metrics(r, s, d) =
               [status |-> "ok", annualized_return |-> r * d, annualized_risk |-> s * d]
    /\ results # EmptyDict =>
           LET d == config.trade_days_per_year
               o == results.optimal_portfolio
               b == results.benchmark
           IN  /\ IsFinite(o.daily_return) /\ IsFinite(o.daily_risk)
               /\ IsFinite(b.daily_return) /\ IsFinite(b.daily_risk)
               /\ o.annual_return = o.daily_return * d
               /\ o.annual_risk = o.daily_risk * d
               /\ b.annual_return = b.daily_return * d
               /\ b.annual_risk = b.daily_risk * d
    /\ last_call = Ended("generate_results", "ok") =>
           /\ results.optimal_portfolio.daily_return = optimal_portfolio.ret
           /\ results.optimal_portfolio.daily_risk = optimal_portfolio.risk
           /\ results.benchmark.daily_return = benchmark_return
           /\ results.benchmark.daily_risk = benchmark_risk

\* results generated for a risky optimal portfolio and a risky benchmark
C16_Witness ==
    /\ last_call = Ended("generate_results", "ok")
    /\ results.optimal_portfolio.daily_risk > 0
    /\ results.optimal_portfolio.daily_return # 0
    /\ results.benchmark.daily_risk > 0
    /\ results.optimal_portfolio.annual_risk > results.optimal_portfolio.daily_risk

----------------------------------------------------------------------------
(* Properties of run_optimization (SpecRun) *)

IsPrefix(a, b) == Len(a) <= Len(b) /\ \A i \in 1..Len(a) : a[i] = b[i]

\* C20: a run_optimization call calls its stages in the order download_data,
\* analyze_benchmark, simulate_portfolios, optimize_portfolio, generate_results,
\* each at most once; a stage that raises ends the call, no later stage runs and
\* self.results is what it was before the call; the call returns, with
\* self.results non-empty, only after all five stages succeeded
C20_RunStagesInOrder ==
    [][/\ (InRun /\ run_pc' # run_pc) =>
              /\ last_call'.op = run_pc
              /\ run_trace' = Append(run_trace, run_pc)
              /\ IsPrefix(run_trace', Stages)
              /\ last_call'.status # "ok" =>
                     /\ run_pc' = "raised"
                     /\ results' = run_results_before
              /\ (last_call'.status = "ok" /\ Len(run_trace') < Len(Stages)) =>
                     /\ run_pc' = Stages[Len(run_trace') + 1]
                     /\ results' = run_results_before
              /\ run_pc' = "returned" <=>
                     (last_call'.status = "ok" /\ run_trace' = Stages)
              /\ run_pc' = "returned" => results' # EmptyDict
       /\ (~InRun /\ run_pc' # run_pc) =>
              /\ run_pc' = Stages[1]
              /\ run_trace' = <<>>
              /\ results' = results
       /\ run_pc' = run_pc => run_trace' = run_trace
       /\ (InRun /\ results' # results) =>
              (run_pc = "generate_results" /\ run_pc' = "returned")
      ]_vars

\* a run that succeeded, then a run whose download fails: the earlier results stay
C20_Witness ==
    /\ run_pc = "raised"
    /\ run_trace = <<"download_data">>
    /\ last_call = Ended("download_data", "ValueError")
    /\ run_results_before # EmptyDict
    /\ results = run_results_before

----------------------------------------------------------------------------
(* config.py: PortfolioConfig and the ways to construct one *)

\* PortfolioConfig(...): the dataclass constructor followed by __post_init__;
\* delta_risk in hundredths, and a comparison with nan is false
PortfolioConfig(benchmark_tickers, portfolio_tickers, start_date, end_date, number_of_scenarios, delta_risk, trade_days_per_year) ==
    IF number_of_scenarios <= 0 THEN Raised("ValueError")
    ELSE IF FLe(delta_risk, 0) \/ FLe(100, delta_risk) THEN Raised("ValueError")
    ELSE IF trade_days_per_year <= 0 THEN Raised("ValueError")
    ELSE [status |-> "ok",
          benchmark_tickers |-> benchmark_tickers,
          portfolio_tickers |-> portfolio_tickers,
          start_date |-> start_date,
          end_date |-> end_date,
          number_of_scenarios |-> number_of_scenarios,
          delta_risk |-> delta_risk,
          trade_days_per_year |-> trade_days_per_year]

\* DEFAULT_CONFIG
DEFAULT_CONFIG ==
    PortfolioConfig(<<"^GSPC">>, <<"AAPL", "GOOG", "AMZN">>, "2017-01-01", "2022-03-31",
                    DefaultScenarios, DefaultDeltaRisk, DefaultTradeDays)

\* a text of an environment variable or of a command-line option: an integer
\* numeral, a decimal numeral (its value in hundredths), "nan", or no number
IntTexts == [kind : {"int"}, v : {-1, 0, 1, 2}]
FloatTexts == [kind : {"float"}, v : {-5, 5, 50, 99, 150}]
NanText == [kind |-> "nan", v |-> NaN]
JunkText == [kind |-> "junk", v |-> 0]

\* int(text): integer numerals only
ParseInt(t) ==
    IF t.kind = "int" THEN [status |-> "ok", v |-> t.v] ELSE Raised("ValueError")

\* float(text): integer and decimal numerals and "nan"; the value in hundredths
ParseFloat(t) ==
    IF t.kind = "int" THEN [status |-> "ok", v |-> t.v * 100]
    ELSE IF t.kind \in {"float", "nan"} THEN [status |-> "ok", v |-> t.v]
    ELSE Raised("ValueError")

\* the three texts parsed as int, float, int; the first failure wins
ParseAll(a) ==
    LET n == ParseInt(a.number_of_scenarios)
        d == ParseFloat(a.delta_risk)
        t == ParseInt(a.trade_days_per_year)
    IN  IF n.status # "ok" THEN n
        ELSE IF d.status # "ok" THEN d
        ELSE IF t.status # "ok" THEN t
        ELSE [status |-> "ok", number_of_scenarios |-> n.v, delta_risk |-> d.v,
              trade_days_per_year |-> t.v]

\* load_config_from_env() with the three variables set to the texts of env and
\* the others unset
load_config_from_env(env) ==
    LET p == ParseAll(env)
    IN  IF p.status # "ok" THEN p
        ELSE PortfolioConfig(<<"^GSPC">>, <<"AAPL", "GOOG", "AMZN">>,
                             "2017-01-01", "2022-03-31",
                             p.number_of_scenarios, p.delta_risk, p.trade_days_per_year)

\* create_custom_config(args): the options are numbers already; benchmark and
\* portfolio are comma-separated texts, kept as the sequence of their parts
create_custom_config(args) ==
    PortfolioConfig(args.benchmark, args.portfolio, args.start_date, args.end_date,
                    args.scenarios, args.delta_risk, args.trade_days)

\* a PortfolioConfig constructed along path from the three values
Construct(a) ==
    IF a.path = "environment" THEN load_config_from_env(a)
    ELSE LET p == ParseAll(a)
         IN  IF p.status # "ok"
             THEN (IF a.path = "command line" THEN Raised("SystemExit") ELSE p)
             ELSE IF a.path = "command line"
             THEN create_custom_config(
                      [benchmark |-> <<"^GSPC">>, portfolio |-> <<"AAPL", "GOOG", "MSFT">>,
                       start_date |-> "2017-01-01", end_date |-> "2022-03-31",
                       scenarios |-> p.number_of_scenarios,
                       delta_risk |-> p.delta_risk,
                       trade_days |-> p.trade_days_per_year])
             ELSE PortfolioConfig(<<"^GSPC">>, <<"AAPL">>, "2020-01-01", "2021-01-01",
                                  p.number_of_scenarios, p.delta_risk,
                                  p.trade_days_per_year)

\* what a construction is given: texts from the environment or the command
\* line, numbers of the annotated types when PortfolioConfig is called directly
CfgInputs ==
    [path : {"environment", "command line"},
     number_of_scenarios : IntTexts \cup {JunkText},
     delta_risk : IntTexts \cup FloatTexts \cup {NanText, JunkText},
     trade_days_per_year : IntTexts \cup {JunkText}]
    \cup
    [path : {"direct"},
     number_of_scenarios : IntTexts,
     delta_risk : IntTexts \cup FloatTexts \cup {NanText},
     trade_days_per_year : IntTexts]

construct_config ==
    /\ cfg_args # None
    /\ cfg_result' = Construct(cfg_args)
    /\ UNCHANGED <<cfg_args, rar_args, rar_result, cli_args, cli_config, cli_entry, cli_out,
                   selVars, metVars, objVars, runVars, outVars>>

InitConfig ==
    /\ cfg_args \in CfgInputs
    /\ cfg_result = NotCalled
    /\ rar_args = None /\ rar_result = NotCalled
    /\ cli_args = None /\ cli_config = NotCalled /\ cli_out = NotCalled
    /\ cli_entry = None
    /\ sel_args = None /\ sel_result = NotCalled
    /\ met_args = None /\ met_result = NotCalled /\ est_result = NotCalled
    /\ Idle /\ RunIdle /\ OutIdle

NextConfig == construct_config

SpecConfig == InitConfig /\ [][NextConfig]_vars

----------------------------------------------------------------------------
(* Properties of PortfolioConfig construction (SpecConfig) *)

CfgCalled == cfg_args # None /\ cfg_result # NotCalled

\* the construction was given three numbers (nan among them)
CfgNumbers ==
    /\ cfg_args.number_of_scenarios.kind = "int"
    /\ cfg_args.delta_risk.kind \in {"int", "float", "nan"}
    /\ cfg_args.trade_days_per_year.kind = "int"

\* number_of_scenarios > 0, 0 < delta_risk < 1 and trade_days_per_year > 0
ValidConfig(c) ==
    /\ c.number_of_scenarios > 0
    /\ c.delta_risk # NaN /\ 0 < c.delta_risk /\ c.delta_risk < 100
    /\ c.trade_days_per_year > 0

\* C17: along every path a construction given number_of_scenarios <= 0,
\* delta_risk <= 0 or >= 1, or trade_days_per_year <= 0 fails, and every
\* PortfolioConfig constructed has number_of_scenarios > 0, 0 < delta_risk < 1
\* and trade_days_per_year > 0
C17_ConstructedConfigIsValid ==
    CfgCalled =>
        /\ (CfgNumbers /\ ~ValidConfig(ParseAll(cfg_args))) => cfg_result.status # "ok"
        /\ cfg_result.status = "ok" => ValidConfig(cfg_result)

\* the same, nan left aside: what the validation does guarantee
C17_ValidUnlessNan ==
    CfgCalled =>
        /\ (CfgNumbers /\ cfg_args.delta_risk.kind # "nan"
               /\ ~ValidConfig(ParseAll(cfg_args))) => cfg_result.status # "ok"
        /\ cfg_result.status = "ok" =>
               (ValidConfig(cfg_result) \/ cfg_result.delta_risk = NaN)

----------------------------------------------------------------------------
(* main.py: the configuration main() runs with *)

\* the options after parse_args: each left at its default or given another value;
\* the reports are asked for on runs of one scenario
CliInputs ==
    [benchmark : {DEFAULT_CONFIG.benchmark_tickers, <<"^DJI">>},
     portfolio : {DEFAULT_CONFIG.portfolio_tickers, <<"AAPL", "GOOG", "MSFT">>},
     start_date : {DEFAULT_CONFIG.start_date, "2020-01-01"},
     end_date : {DEFAULT_CONFIG.end_date, "2023-12-31"},
     scenarios : {DEFAULT_CONFIG.number_of_scenarios, 50000, -1},
     delta_risk : {DEFAULT_CONFIG.delta_risk, 3},
     trade_days : {DEFAULT_CONFIG.trade_days_per_year, 250},
     save_results : {FALSE},
     show_plot : {FALSE},
     save_plot : {FALSE}]
    \cup
    [benchmark : {DEFAULT_CONFIG.benchmark_tickers},
     portfolio : {DEFAULT_CONFIG.portfolio_tickers, <<"AAPL", "GOOG", "MSFT">>},
     start_date : {DEFAULT_CONFIG.start_date},
     end_date : {DEFAULT_CONFIG.end_date},
     scenarios : {1},
     delta_risk : {DEFAULT_CONFIG.delta_risk, 3},
     trade_days : {DEFAULT_CONFIG.trade_days_per_year},
     save_results : BOOLEAN,
     show_plot : BOOLEAN,
     save_plot : BOOLEAN]

\* the configuration main() constructs the optimizer with: the options count only
\* when --portfolio, --start-date or --end-date differs from its default; an
\* exception is logged and the process exits with status 1
ConfigOfMain(args) ==
    IF \/ args.portfolio # DEFAULT_CONFIG.portfolio_tickers
       \/ args.start_date # DEFAULT_CONFIG.start_date
       \/ args.end_date # DEFAULT_CONFIG.end_date
    THEN LET c == create_custom_config(args)
         IN  IF c.status = "ok" THEN c ELSE Raised("SystemExit")
    ELSE DEFAULT_CONFIG

----------------------------------------------------------------------------
(* Properties of main() (SpecCli) *)

\* C18: the configuration main() runs with has number_of_scenarios, delta_risk,
\* trade_days_per_year and benchmark tickers equal to the values of --scenarios,
\* --delta-risk, --trade-days and --benchmark, whatever the other options
C18_OptionsHonoured ==
    (cli_args # None /\ cli_config # NotCalled /\ cli_config.status = "ok") =>
        /\ cli_config.number_of_scenarios = cli_args.scenarios
        /\ cli_config.delta_risk = cli_args.delta_risk
        /\ cli_config.trade_days_per_year = cli_args.trade_days
        /\ cli_config.benchmark_tickers = cli_args.benchmark

----------------------------------------------------------------------------
(* Order independence of find_optimal_portfolio (SpecSelector) *)

\* the permutations of 1..n: new position |-> old position
Perms(n) == {f \in [1..n -> 1..n] : \A i, j \in 1..n : f[i] = f[j] => i = j}

\* the records of a in the order f
Permuted(a, f) == [k \in 1..Len(a) |-> a[f[k]]]

\* exactly one candidate of the branch taken has the greatest return
NoTie(a) ==
    \E i \in CandidateSet(a) :
        \A j \in CandidateSet(a) \ {i} :
            a.portfolio_array[j].ret < a.portfolio_array[i].ret

\* C19: on every permutation of the records in which no two candidates of the
\* branch taken share the greatest return, find_optimal_portfolio returns the same
\* (return, risk) record, at the position the permutation moved it to
C19_OrderIndependent ==
    SelCalled =>
        \A f \in Perms(Len(sel_args.portfolio_array)) :
            LET r == find_optimal_portfolio(Permuted(sel_args.portfolio_array, f),
                                            sel_args.max_risk, sel_args.min_risk)
            IN  /\ sel_result.status # "ok" => r.status = sel_result.status
                /\ (sel_result.status = "ok" /\ NoTie(sel_args)) =>
                       /\ r.status = "ok"
                       /\ r.best_portfolio = sel_result.best_portfolio
                       /\ f[r.portfolio_idx + 1] = sel_result.portfolio_idx + 1

\* three records, at least two candidates, the best of them alone and in the last
\* position
C19_Witness ==
    /\ SelCalled
    /\ Len(sel_args.portfolio_array) = 3
    /\ sel_result.status = "ok"
    /\ Cardinality(CandidateSet(sel_args)) >= 2
    /\ NoTie(sel_args)
    /\ sel_result.portfolio_idx = 2

----------------------------------------------------------------------------
(* simulate_portfolios called once on downloaded data (SpecSimulate) *)

\* what the data source may return for the tickers asked: one column per ticker,
\* or one column fewer (a ticker listed twice is downloaded once); the benchmark
\* rises on the last day
SimMarkets ==
    UNION {[benchmark : {[d \in 1..l |-> IF d = l THEN 2 ELSE 1]},
            portfolio : Matrices(PriceValues, l, c)] :
               l \in DayCounts,
               c \in {Len(PortfolioTickers) - 1, Len(PortfolioTickers)}}

\* the configurations simulated: every number of scenarios
SimConfigs ==
    [number_of_scenarios : 1..MaxScenarios,
     delta_risk : {DefaultDeltaRisk},
     trade_days_per_year : {DefaultTradeDays},
     portfolio_tickers : {PortfolioTickers}]

\* the population an earlier simulate_portfolios call stored, on earlier data
EarlierPopulation(cfg) ==
    Population(0, 0, [i \in 1..cfg.number_of_scenarios |-> <<WDen, 0>>],
               <<<<1, 1>>, <<2, 1>>, <<1, 1>>>>)

\* every optimizer that has downloaded its data and analysed the benchmark, with
\* no population yet or with that of an earlier simulation
InitSimulate ==
    /\ market \in SimMarkets
    /\ config \in SimConfigs
    /\ benchmark_data = [Close |-> market.benchmark]
    /\ portfolio_data = [Close |-> market.portfolio]
    /\ benchmark_return = calculate_returns_and_risk(market.benchmark).ret
    /\ benchmark_risk = calculate_returns_and_risk(market.benchmark).risk
    /\ portfolio_scenarios \in {EmptyList, EarlierPopulation(config)}
    /\ optimal_portfolio = None
    /\ optimal_weights = None
    /\ risk_boundaries = None
    /\ results = EmptyDict
    /\ last_call = Ended("analyze_benchmark", "ok")
    /\ sel_args = None /\ sel_result = NotCalled
    /\ met_args = None /\ met_result = NotCalled /\ est_result = NotCalled
    /\ RunIdle /\ OutIdle /\ FnIdle

NextSimulate == simulate_portfolios

SpecSimulate == InitSimulate /\ [][NextSimulate]_vars

\* the evaluation of the weights fails on the prices downloaded
EvaluationFails(weights) ==
    calculate_portfolio_metrics(weights, portfolio_data.Close).status # "ok"

\* C21: a simulate_portfolios call either evaluates all K scenarios and stores a
\* population of K+1 metric pairs and K weight vectors, or stops at the first
\* scenario i whose evaluation fails: it ends with that error, has sampled and
\* evaluated scenarios 1..i once each and none after i, and leaves
\* portfolio_scenarios as it was; a stored population never has fewer than K+1
\* metric pairs
C21_FailFastNoPartialPopulation ==
    [][simulate_portfolios =>
          LET K == config.number_of_scenarios
              i == Len(sim_log'.sampled)
          IN  /\ sim_log'.evaluated = [k \in 1..i |-> k]
              /\ \A k \in 1..(i - 1) : ~EvaluationFails(sim_log'.sampled[k])
              /\ IF last_call'.status = "ok"
                 THEN /\ i = K
                      /\ ~EvaluationFails(sim_log'.sampled[i])
                      /\ portfolio_scenarios'.weights = sim_log'.sampled
                 ELSE /\ i \in 1..K
                      /\ EvaluationFails(sim_log'.sampled[i])
                      /\ last_call'.status =
                             calculate_portfolio_metrics(sim_log'.sampled[i],
                                                         portfolio_data.Close).status
                      /\ portfolio_scenarios' = portfolio_scenarios
              /\ portfolio_scenarios' # EmptyList =>
                     /\ Len(portfolio_scenarios'.returns) = K + 1
                     /\ Len(portfolio_scenarios'.risks) = K + 1
                     /\ Len(portfolio_scenarios'.weights) = K]_vars

\* a simulation of two scenarios failed at the first: one vector was sampled,
\* and the population of an earlier simulation is still the stored one
C21_Witness ==
    /\ last_call = Ended("simulate_portfolios", "ValueError")
    /\ config.number_of_scenarios = MaxScenarios
    /\ Len(sim_log.sampled) = 1
    /\ sim_log.evaluated = <<1>>
    /\ portfolio_scenarios = EarlierPopulation(config)

----------------------------------------------------------------------------
(* Frame of optimize_portfolio (Spec) *)

\* C22: a call of optimize_portfolio, whether it stores a selection or raises,
\* leaves the population's returns, risks and weights and the benchmark's return
\* and risk as they were, and the array the selector was called on is still the
\* stored population without its benchmark record; of the optimizer's fields it
\* writes at most optimal_portfolio, optimal_weights and risk_boundaries
C22_SelectorOnlyReads ==
    [][optimize_portfolio =>
          /\ portfolio_scenarios' = portfolio_scenarios
          /\ benchmark_return' = benchmark_return
          /\ benchmark_risk' = benchmark_risk
          /\ UNCHANGED <<config, benchmark_data, portfolio_data, results>>
          /\ sel_args' # sel_args =>
                 sel_args'.portfolio_array = PortfolioArray(portfolio_scenarios')]_vars

\* a selection was stored from a population of more than one scenario, which is
\* still whole: the benchmark's pair first, then one pair per scenario
C22_Witness ==
    /\ last_call = Ended("optimize_portfolio", "ok")
    /\ optimal_weights # None
    /\ Len(portfolio_scenarios.weights) = MaxScenarios
    /\ Len(portfolio_scenarios.returns) = MaxScenarios + 1
    /\ portfolio_scenarios.risks[1] = benchmark_risk
    /\ sel_args.portfolio_array = PortfolioArray(portfolio_scenarios)

----------------------------------------------------------------------------
(* Reporting: create_visualization, create_summary_table, save_results and
   get_portfolio_performance_summary *)

\* config.benchmark_tickers of the optimizers explored
BenchmarkTickers == <<"^GSPC">>

\* what a method that ran to its end hands back
ReturnedValue(value) == [status |-> "ok", value |-> value]

\* np.array(v) * trade_days_per_year
TimesDays(v, trade_days_per_year) ==
    [i \in 1..Len(v) |-> FTimes(v[i], trade_days_per_year)]

\* a plot that annualizes the array it is handed instead of a copy of it
VisualizationInPlace(risk_vector, return_vector, bench_risk, bench_return, best_portfolio, risk_gap, trade_days_per_year) ==
    IF best_portfolio = None THEN Raised("AttributeError")
    ELSE [status |-> "ok",
          best_portfolio |->
              [ret |-> FTimes(best_portfolio.ret, trade_days_per_year),
               risk |-> FTimes(best_portfolio.risk, trade_days_per_year)],
          fig |-> [best |-> [x |-> FTimes(best_portfolio.risk, trade_days_per_year),
                             y |-> FTimes(best_portfolio.ret, trade_days_per_year)]]]

\* utils.py: the figure (what is plotted where), and best_portfolio as the call
\* leaves the array it was handed: the annual values are written into a copy;
\* None * int raises TypeError, for a None in the vectors as for the benchmark's
create_portfolio_visualization(risk_vector, return_vector, bench_risk, bench_return, best_portfolio, risk_gap, trade_days_per_year) ==
    IF best_portfolio = None THEN Raised("AttributeError")
    ELSE IF NoneF \in Range(risk_vector) \cup Range(return_vector)
    THEN Raised("TypeError")
    ELSE IF bench_risk = NoneF \/ bench_return = NoneF THEN Raised("TypeError")
    ELSE LET risk_gap_annual == TimesDays(risk_gap, trade_days_per_year)
             best_portfolio_annual ==
                 [ret |-> FTimes(best_portfolio.ret, trade_days_per_year),
                  risk |-> FTimes(best_portfolio.risk, trade_days_per_year)]
         IN  [status |-> "ok",
              best_portfolio |-> best_portfolio,
              fig |-> [scenarios |-> [x |-> TimesDays(risk_vector, trade_days_per_year),
                                      y |-> TimesDays(return_vector, trade_days_per_year)],
                       benchmark |-> [x |-> FTimes(bench_risk, trade_days_per_year),
                                      y |-> FTimes(bench_return, trade_days_per_year)],
                       best |-> [x |-> best_portfolio_annual.risk,
                                 y |-> best_portfolio_annual.ret],
                       zone |-> risk_gap_annual]]

\* self.portfolio_scenarios['risks'] raises TypeError on the empty list of
\* __init__, self.risk_boundaries AttributeError before the first selection
create_visualization ==
    /\ IF portfolio_scenarios = EmptyList
       THEN /\ last_call' = Ended("create_visualization", "TypeError")
            /\ returned' = Raised("TypeError")
            /\ UNCHANGED optimal_portfolio
       ELSE IF risk_boundaries = None
       THEN /\ last_call' = Ended("create_visualization", "AttributeError")
            /\ returned' = Raised("AttributeError")
            /\ UNCHANGED optimal_portfolio
       ELSE LET out == create_portfolio_visualization(
                           portfolio_scenarios.risks, portfolio_scenarios.returns,
                           benchmark_risk, benchmark_return, optimal_portfolio,
                           risk_boundaries.risk_gap, config.trade_days_per_year)
            IN  /\ last_call' = Ended("create_visualization", out.status)
                /\ returned' = IF out.status = "ok" THEN ReturnedValue(out.fig)
                               ELSE Raised(out.status)
                /\ optimal_portfolio' = IF out.status = "ok" THEN out.best_portfolio
                                        ELSE optimal_portfolio
    /\ UNCHANGED <<market, config, benchmark_data, portfolio_data, benchmark_return,
                   benchmark_risk, portfolio_scenarios, optimal_weights,
                   risk_boundaries, results, selVars, metVars, fnVars, sim_log, files>>
    /\ Called("create_visualization")

\* utils.py: one row per ticker, the largest share first (rows of equal share
\* keep their order); pandas refuses columns of different lengths
create_portfolio_summary_table(portfolio_tickers, best_weights) ==
    IF Len(portfolio_tickers) # Len(best_weights) THEN Raised("ValueError")
    ELSE LET n == Len(best_weights)
             Rank(i) == 1 + Cardinality({j \in 1..n :
                                           \/ best_weights[j] > best_weights[i]
                                           \/ best_weights[j] = best_weights[i] /\ j < i})
         IN  [status |-> "ok",
              table |-> [k \in 1..n |->
                           LET i == CHOOSE i \in 1..n : Rank(i) = k
                           IN  [Stock_Name |-> portfolio_tickers[i],
                                Stock_Pct_in_Portfolio |-> best_weights[i]]]]

\* self.optimal_weights.tolist() raises AttributeError on None
create_summary_table ==
    /\ IF optimal_weights = None
       THEN /\ last_call' = Ended("create_summary_table", "AttributeError")
            /\ returned' = Raised("AttributeError")
       ELSE LET out == create_portfolio_summary_table(config.portfolio_tickers,
                                                      optimal_weights)
            IN  /\ last_call' = Ended("create_summary_table", out.status)
                /\ returned' = IF out.status = "ok" THEN ReturnedValue([table |-> out.table])
                               ELSE Raised(out.status)
    /\ UNCHANGED <<market, config, benchmark_data, portfolio_data, benchmark_return,
                   benchmark_risk, portfolio_scenarios, optimal_portfolio,
                   optimal_weights, risk_boundaries, results, selVars, metVars,
                   fnVars, sim_log, files>>
    /\ Called("create_summary_table")

\* a save_results that writes a file with no rows when there are no results
SaveResultsEmptyFile(res, benchmark_tickers) ==
    [status |-> "ok", rows |-> <<>>]

\* save_results up to df.to_csv: the rows of the file, one per asset of the
\* optimal portfolio and one for the benchmark
SaveResultsRows(res, benchmark_tickers) ==
    IF res = EmptyDict THEN Raised("ValueError")
    ELSE LET optimal == res.optimal_portfolio
             Row(type, asset, weight, of) ==
                 [Type |-> type, Asset |-> asset, Weight |-> weight,
                  Daily_Return |-> of.daily_return, Daily_Risk |-> of.daily_risk,
                  Annual_Return |-> of.annual_return, Annual_Risk |-> of.annual_risk]
         IN  [status |-> "ok",
              rows |-> [i \in 1..Len(optimal.weights) |->
                           Row("Optimal Portfolio", optimal.weights[i][1],
                               optimal.weights[i][2], optimal)]
                       \o <<Row("Benchmark", benchmark_tickers[1], WDen, res.benchmark)>>]

\* df.to_csv(filename) creates the file or replaces it
save_results ==
    /\ \E filename \in Filenames :
          LET out == SaveResultsRows(results, BenchmarkTickers)
          IN  /\ last_call' = Ended("save_results", out.status)
              /\ IF out.status = "ok"
                 THEN /\ files' = [files EXCEPT ![filename] = [rows |-> out.rows]]
                      /\ returned' = ReturnedValue(None)
                 ELSE /\ UNCHANGED files
                      /\ returned' = Raised(out.status)
    /\ UNCHANGED <<market, config, benchmark_data, portfolio_data, benchmark_return,
                   benchmark_risk, portfolio_scenarios, optimal_portfolio,
                   optimal_weights, risk_boundaries, results, selVars, metVars,
                   fnVars, sim_log>>
    /\ Called("save_results")

\* the text of format(x, '.2%'): x in hundredths of a percent, rounded; nan and
\* the infinities are printed as such
Percent(x, unit) ==
    IF ~IsFinite(x) THEN x
    ELSE LET whole == FloorDiv(x, unit)
             rest == x - whole * unit
         IN  whole * 10000 + FloorDiv(2 * rest * 10000 + unit, 2 * unit)

NoResultsText == "No results available. Run optimization first."

\* the string get_portfolio_performance_summary builds, line by line
PerformanceSummary(res, benchmark_tickers) ==
    IF res = EmptyDict THEN [text |-> NoResultsText]
    ELSE LET optimal == res.optimal_portfolio
             benchmark == res.benchmark
         IN  [text |-> "Portfolio Optimization Results",
              optimal_portfolio |->
                  [annual_return |-> Percent(optimal.annual_return, Scale),
                   annual_risk |-> Percent(optimal.annual_risk, Scale)],
              benchmark |->
                  [ticker |-> benchmark_tickers[1],
                   annual_return |-> Percent(benchmark.annual_return, Scale),
                   annual_risk |-> Percent(benchmark.annual_risk, Scale)],
              allocation |->
                  [i \in 1..Len(optimal.weights) |->
                      <<optimal.weights[i][1], Percent(optimal.weights[i][2], WDen)>>]]

get_portfolio_performance_summary ==
    /\ last_call' = Ended("get_portfolio_performance_summary", "ok")
    /\ returned' = ReturnedValue(PerformanceSummary(results, BenchmarkTickers))
    /\ UNCHANGED <<market, config, benchmark_data, portfolio_data, benchmark_return,
                   benchmark_risk, portfolio_scenarios, optimal_portfolio,
                   optimal_weights, risk_boundaries, results, selVars, metVars,
                   fnVars, sim_log, files>>
    /\ Called("get_portfolio_performance_summary")

\* the optimizer just constructed, or with its data downloaded, its benchmark
\* analysed and a population simulated, in this order or the population first;
\* the selection and the reports follow
InitReport ==
    /\ market \in LifeMarkets
    /\ config \in RunConfigs
    /\ \/ ObjInit
       \/ /\ benchmark_data = [Close |-> market.benchmark]
          /\ portfolio_data = [Close |-> market.portfolio]
          /\ benchmark_return = calculate_returns_and_risk(market.benchmark).ret
          /\ benchmark_risk = calculate_returns_and_risk(market.benchmark).risk
          /\ \E weight_vector \in [1..config.number_of_scenarios ->
                                     WeightGrid(Len(config.portfolio_tickers))] :
                 \/ /\ portfolio_scenarios =
                           Population(benchmark_return, benchmark_risk,
                                      weight_vector, market.portfolio)
                    /\ last_call = Ended("simulate_portfolios", "ok")
                 \/ /\ portfolio_scenarios =
                           Population(NoneF, NoneF, weight_vector, market.portfolio)
                    /\ last_call = Ended("analyze_benchmark", "ok")
          /\ optimal_portfolio = None
          /\ optimal_weights = None
          /\ risk_boundaries = None
          /\ results = EmptyDict
    /\ sel_args = None /\ sel_result = NotCalled
    /\ met_args = None /\ met_result = NotCalled /\ est_result = NotCalled
    /\ RunIdle /\ OutIdle /\ FnIdle

NextReport ==
    \/ optimize_portfolio
    \/ generate_results
    \/ create_visualization
    \/ create_summary_table
    \/ save_results
    \/ get_portfolio_performance_summary

SpecReport == InitReport /\ [][NextReport]_vars

----------------------------------------------------------------------------
(* Properties of the reporting methods (SpecReport) *)

\* a step of one of the reporting methods
Reporting ==
    \/ create_visualization
    \/ generate_results
    \/ create_summary_table
    \/ get_portfolio_performance_summary
    \/ save_results

\* C23: no call of create_visualization, generate_results, create_summary_table,
\* get_portfolio_performance_summary or save_results changes optimal_portfolio,
\* optimal_weights or risk_boundaries, and the daily return and risk that
\* generate_results reports are those of the stored optimal_portfolio, whatever
\* was called before it
C23_SelectionImmutableUnderReporting ==
    [][Reporting =>
          /\ UNCHANGED <<optimal_portfolio, optimal_weights, risk_boundaries>>
          /\ (generate_results /\ last_call'.status = "ok") =>
                 /\ results'.optimal_portfolio.daily_return = optimal_portfolio.ret
                 /\ results'.optimal_portfolio.daily_risk = optimal_portfolio.risk
                 /\ results'.risk_boundaries = risk_boundaries]_vars

\* generate_results has just run after create_visualization drew the figure
\* still held: the figure shows the annual values of a selection of non-zero
\* risk, the results and the optimizer the daily ones
C23_Witness ==
    /\ last_call = Ended("generate_results", "ok")
    /\ returned.status = "ok"
    /\ "best" \in DOMAIN returned.value
    /\ optimal_portfolio.risk > 0
    /\ returned.value.best.x = optimal_portfolio.risk * config.trade_days_per_year
    /\ results.optimal_portfolio.daily_risk = optimal_portfolio.risk
    /\ results.optimal_portfolio.annual_risk = returned.value.best.x

\* C24: while self.results is empty, save_results raises ValueError and writes no
\* file, get_portfolio_performance_summary returns the text 'No results
\* available. Run optimization first.', and neither changes a field of the
\* optimizer
C24_NoResultsRejected ==
    [][(results = EmptyDict /\ (save_results \/ get_portfolio_performance_summary)) =>
          /\ UNCHANGED <<config, benchmark_data, portfolio_data, benchmark_return,
                         benchmark_risk, portfolio_scenarios, optimal_portfolio,
                         optimal_weights, risk_boundaries, results>>
          /\ files' = files
          /\ last_call'.op = "save_results" =>
                 /\ last_call'.status = "ValueError"
                 /\ returned' = Raised("ValueError")
          /\ last_call'.op = "get_portfolio_performance_summary" =>
                 /\ last_call'.status = "ok"
                 /\ returned' = ReturnedValue([text |-> NoResultsText])]_vars

\* save_results was refused on an optimizer that holds a selection but no
\* results, and no file exists
C24_Witness ==
    /\ last_call = Ended("save_results", "ValueError")
    /\ results = EmptyDict
    /\ optimal_portfolio # None
    /\ \A f \in Filenames : files[f] = NoFile

----------------------------------------------------------------------------
(* optimize_portfolio on any data and configuration the code lets through
   (SpecOptimizeAny) *)

\* prices the data source may quote for the benchmark, a zero quote included
\* (calculate_returns_and_risk divides by it without complaint)
BenchmarkQuotes == PriceValues \cup {0}

\* the markets of Markets, and those of two trading days whose benchmark has a
\* zero quote
AnyMarkets ==
    Markets \cup [benchmark : [1..2 -> BenchmarkQuotes],
                  portfolio : Matrices(PriceValues, 2, Len(PortfolioTickers))]

\* the configurations of Configs, and those with delta_risk = float('nan'), which
\* __post_init__ lets through
AnyConfigs ==
    [number_of_scenarios : 1..MaxScenarios,
     delta_risk : DeltaRiskPct \cup {NaN},
     trade_days_per_year : {DefaultTradeDays},
     portfolio_tickers : {PortfolioTickers}]

InitOptimizeAny ==
    /\ market \in AnyMarkets
    /\ config \in AnyConfigs
    /\ benchmark_data = [Close |-> market.benchmark]
    /\ portfolio_data = [Close |-> market.portfolio]
    /\ benchmark_return = calculate_returns_and_risk(market.benchmark).ret
    /\ benchmark_risk = calculate_returns_and_risk(market.benchmark).risk
    /\ \E weight_vector \in [1..config.number_of_scenarios ->
                               WeightGrid(Len(config.portfolio_tickers))] :
           portfolio_scenarios =
               Population(benchmark_return, benchmark_risk, weight_vector,
                          market.portfolio)
    /\ optimal_portfolio = None
    /\ optimal_weights = None
    /\ risk_boundaries = None
    /\ results = EmptyDict
    /\ last_call = Ended("simulate_portfolios", "ok")
    /\ sel_args = None /\ sel_result = NotCalled
    /\ met_args = None /\ met_result = NotCalled /\ est_result = NotCalled
    /\ RunIdle /\ OutIdle /\ FnIdle

NextOptimizeAny == optimize_portfolio

SpecOptimizeAny == InitOptimizeAny /\ [][NextOptimizeAny]_vars

\* optimize_portfolio has just stored a selection
Selected == last_call = Ended("optimize_portfolio", "ok")

\* C25: after optimize_portfolio has stored a selection from a simulated
\* population of K scenarios, the selector's index j is in 0..K-1,
\* optimal_weights is weights[j], optimal_portfolio is (returns[j+1],
\* risks[j+1]) (never position 0, the benchmark's), these are the metrics of
\* those weights on the downloaded prices, none of them NaN, and there is one
\* weight per portfolio ticker
C25_WeightsMatchMetrics ==
    Selected =>
        LET K == Len(portfolio_scenarios.weights)
            j == sel_result.portfolio_idx
        IN  /\ j \in 0..(K - 1)
            /\ optimal_weights = portfolio_scenarios.weights[j + 1]
            /\ FEq(optimal_portfolio.ret, portfolio_scenarios.returns[j + 2])
            /\ FEq(optimal_portfolio.risk, portfolio_scenarios.risks[j + 2])
            /\ calculate_portfolio_metrics(optimal_weights, portfolio_data.Close)
                   = [status |-> "ok", ret |-> optimal_portfolio.ret,
                      risk |-> optimal_portfolio.risk]
            /\ Len(optimal_weights) = Len(config.portfolio_tickers)

\* the second of two scenarios was selected; its metrics and weights differ from
\* the first scenario's and from the benchmark's pair
C25_Witness ==
    /\ Selected
    /\ sel_result.portfolio_idx = 1
    /\ optimal_weights # portfolio_scenarios.weights[1]
    /\ optimal_portfolio.risk # portfolio_scenarios.risks[2]
    /\ optimal_portfolio.risk # portfolio_scenarios.risks[1]
    /\ optimal_portfolio.risk = portfolio_scenarios.risks[3]

\* IEEE >: false as soon as one side is NaN
FGt(a, b) == a # NaN /\ b # NaN /\ a > b

\* some non-benchmark record has risk <= max_risk
SomeAcceptable ==
    \E i \in 2..Len(portfolio_scenarios.risks) :
        FLe(portfolio_scenarios.risks[i], risk_boundaries.max_risk)

\* C26: after optimize_portfolio has stored a selection, the selected risk is
\* <= max_risk if and only if some non-benchmark record has risk <= max_risk;
\* when none has, the selected risk equals min_risk and exceeds max_risk, and
\* risk_gap = [min_risk, max_risk] is inverted (min_risk > max_risk)
C26_RiskBoundOfOutcome ==
    Selected =>
        /\ FLe(optimal_portfolio.risk, risk_boundaries.max_risk) <=> SomeAcceptable
        /\ ~SomeAcceptable =>
               /\ FEq(optimal_portfolio.risk, risk_boundaries.min_risk)
               /\ FGt(optimal_portfolio.risk, risk_boundaries.max_risk)
               /\ risk_boundaries.risk_gap =
                      <<risk_boundaries.min_risk, risk_boundaries.max_risk>>
               /\ FGt(risk_boundaries.risk_gap[1], risk_boundaries.risk_gap[2])

\* the same holds whenever max_risk is a number: the equivalence holds always,
\* and the rest fails only for max_risk = NaN
C26_RiskBoundUnlessNan ==
    Selected =>
        /\ FLe(optimal_portfolio.risk, risk_boundaries.max_risk) <=> SomeAcceptable
        /\ (~SomeAcceptable /\ risk_boundaries.max_risk # NaN) =>
               /\ FEq(optimal_portfolio.risk, risk_boundaries.min_risk)
               /\ FGt(optimal_portfolio.risk, risk_boundaries.max_risk)
               /\ FGt(risk_boundaries.risk_gap[1], risk_boundaries.risk_gap[2])
        /\ (~SomeAcceptable /\ risk_boundaries.max_risk = NaN) =>
               /\ FEq(optimal_portfolio.risk, risk_boundaries.min_risk)
               /\ benchmark_risk = NaN \/ config.delta_risk = NaN

\* no record was acceptable for a max_risk that is a number: the record of least
\* risk was selected, above max_risk
C26_FallbackAboveMaxRisk ==
    /\ Selected
    /\ ~SomeAcceptable
    /\ risk_boundaries.max_risk # NaN
    /\ optimal_portfolio.risk > risk_boundaries.max_risk
    /\ Len(portfolio_scenarios.weights) = MaxScenarios

----------------------------------------------------------------------------
(* main.py: the process, from the configuration to its exit *)

\* how main.py's code is entered: `python main.py ...` as the repository ships it,
\* or main() and run_example() called by a caller that has loaded the modules
Script == "python main.py"
Call == "call"

\* the fields of a PortfolioOptimizer just constructed
NewOptimizer ==
    [benchmark_data |-> None, portfolio_data |-> None,
     benchmark_return |-> NoneF, benchmark_risk |-> NoneF,
     portfolio_scenarios |-> EmptyList, optimal_portfolio |-> None,
     optimal_weights |-> None, risk_boundaries |-> None, results |-> EmptyDict]

\* a run_optimization call that has just entered its try block on a new optimizer
RunEntered ==
    [status |-> "ok", run_trace |-> <<>>, self |-> NewOptimizer,
     sim_log |-> [sampled |-> <<>>, evaluated |-> <<>>],
     sel |-> [args |-> None, found |-> NotCalled]]

\* the n-th stage of a run_optimization call: skipped once a stage has raised,
\* otherwise called on the optimizer's fields as the stages before left them; run
\* holds the stages called, how the last ended, the fields, and what the
\* simulation and the selector were handed
RunStage(n, run, cfg, bench, port, draws) ==
    IF run.status # "ok" THEN run
    ELSE
    LET self == run.self
        Ends(status, after) ==
            [run EXCEPT !.status = status, !.run_trace = Append(@, Stages[n]),
                        !.self = after]
    IN  CASE n = 1 ->
               IF bench = NoData THEN Ends("ValueError", self)
               ELSE IF port = NoData
               THEN Ends("ValueError",
                         [self EXCEPT !.benchmark_data = [Close |-> bench]])
               ELSE Ends("ok", [self EXCEPT !.benchmark_data = [Close |-> bench],
                                            !.portfolio_data = [Close |-> port]])
          [] n = 2 ->
               LET m == calculate_returns_and_risk(self.benchmark_data.Close)
               IN  Ends("ok", [self EXCEPT !.benchmark_return = m.ret,
                                           !.benchmark_risk = m.risk])
          [] n = 3 ->
               LET loop == SimulateLoop(1, draws, self.portfolio_data.Close,
                                        [status |-> "ok", weight_vector |-> <<>>,
                                         evaluated |-> <<>>])
                   after == IF loop.status # "ok" THEN self
                            ELSE [self EXCEPT !.portfolio_scenarios =
                                     Population(self.benchmark_return,
                                                self.benchmark_risk,
                                                loop.weight_vector,
                                                self.portfolio_data.Close)]
               IN  [Ends(loop.status, after)
                       EXCEPT !.sim_log = [sampled |-> loop.weight_vector,
                                           evaluated |-> loop.evaluated]]
          [] n = 4 ->
               LET out == OptimizeOutcome(self.portfolio_scenarios,
                                          self.benchmark_risk, cfg.delta_risk)
                   after == IF out.status # "ok" THEN self
                            ELSE [self EXCEPT
                                     !.optimal_portfolio = out.optimal_portfolio,
                                     !.optimal_weights = out.optimal_weights,
                                     !.risk_boundaries = out.risk_boundaries]
               IN  [Ends(out.status, after)
                       EXCEPT !.sel = IF "args" \in DOMAIN out
                                      THEN [args |-> out.args, found |-> out.found]
                                      ELSE @]
          [] n = 5 ->
               LET res == ResultsOf(self.optimal_portfolio, self.optimal_weights,
                                    self.benchmark_return, self.benchmark_risk,
                                    self.risk_boundaries, self.portfolio_scenarios,
                                    cfg)
                   after == IF res.status # "ok" THEN self
                            ELSE [self EXCEPT !.results =
                                     [k \in DOMAIN res \ {"status"} |-> res[k]]]
               IN  Ends(res.status, after)

\* what the process does with the optimizer once run_optimization has returned:
\* the summary is printed, the results saved and the figure drawn, saved and
\* shown as asked, the allocation table printed; an exception ends it
ReportsOf(cfg, self, opts) ==
    LET summary == PerformanceSummary(self.results, cfg.benchmark_tickers)
        saved == SaveResultsRows(self.results, cfg.benchmark_tickers)
        drawn == create_portfolio_visualization(
                     self.portfolio_scenarios.risks, self.portfolio_scenarios.returns,
                     self.benchmark_risk, self.benchmark_return,
                     self.optimal_portfolio, self.risk_boundaries.risk_gap,
                     cfg.trade_days_per_year)
        table == create_portfolio_summary_table(cfg.portfolio_tickers,
                                                self.optimal_weights)
        Written(name, content, before) ==
            [f \in DOMAIN before \cup {name} |-> IF f = name THEN content ELSE before[f]]
        Ends(status, call, value, printed, written, shown) ==
            [status |-> status, last_call |-> Ended(call, status),
             returned |-> IF status = "ok" THEN ReturnedValue(value) ELSE Raised(status),
             printed |-> printed, written |-> written, shown |-> shown]
        results_file == IF opts.save_results
                        THEN ResultsFile :> [rows |-> saved.rows] ELSE <<>>
        plot_file == IF opts.save_plot
                     THEN Written(PlotFile, [fig |-> drawn.fig], results_file)
                     ELSE results_file
    IN  IF opts.save_results /\ saved.status # "ok"
        THEN Ends(saved.status, "save_results", None, <<summary>>, <<>>, FALSE)
        ELSE IF opts.plot /\ drawn.status # "ok"
        THEN Ends(drawn.status, "create_visualization", None, <<summary>>,
                  results_file, FALSE)
        ELSE LET written == IF opts.plot THEN plot_file ELSE results_file
                 shown == opts.plot /\ opts.show_plot
             IN  IF table.status # "ok"
                 THEN Ends(table.status, "create_summary_table", None, <<summary>>,
                           written, shown)
                 ELSE Ends("ok", "create_summary_table", [table |-> table.table],
                           <<summary, table.table>>, written, shown)

\* the closing prices the data source has for the tickers of the command line:
\* three trading days, or one
CliMarkets ==
    {[benchmark |-> <<1, 1, 2>>,
      portfolio |-> <<<<1, 1, 2>>, <<2, 1, 1>>, <<1, 1, 2>>>>],
     [benchmark |-> <<1>>, portfolio |-> <<<<1, 1, 1>>>>]}

\* the process: an optimizer is constructed with cfg and run on what the data
\* source answers and the sampler draws, then the reports are made
Process(cfg, opts) ==
    \E bench \in {market.benchmark, NoData}, port \in {market.portfolio, NoData} :
      /\ \E draws \in IF bench # NoData /\ port # NoData
                      THEN SamplerDraws(cfg.number_of_scenarios,
                                        Len(cfg.portfolio_tickers))
                      ELSE {<<>>} :
         \E downloaded \in {RunStage(1, RunEntered, cfg, bench, port, draws)} :
         \E analysed \in {RunStage(2, downloaded, cfg, bench, port, draws)} :
         \E simulated \in {RunStage(3, analysed, cfg, bench, port, draws)} :
         \E optimized \in {RunStage(4, simulated, cfg, bench, port, draws)} :
         \E run \in {RunStage(5, optimized, cfg, bench, port, draws)} :
            /\ config' = cfg
            /\ benchmark_data' = run.self.benchmark_data
            /\ portfolio_data' = run.self.portfolio_data
            /\ benchmark_return' = run.self.benchmark_return
            /\ benchmark_risk' = run.self.benchmark_risk
            /\ portfolio_scenarios' = run.self.portfolio_scenarios
            /\ optimal_portfolio' = run.self.optimal_portfolio
            /\ optimal_weights' = run.self.optimal_weights
            /\ risk_boundaries' = run.self.risk_boundaries
            /\ results' = run.self.results
            /\ run_trace' = run.run_trace
            /\ run_results_before' = EmptyDict
            /\ run_pc' = IF run.status = "ok" THEN "returned" ELSE "raised"
            /\ sim_log' = run.sim_log
            /\ IF run.sel.args = None THEN UNCHANGED selVars
               ELSE sel_args' = run.sel.args /\ sel_result' = run.sel.found
            /\ IF run.status # "ok"
               THEN /\ last_call' = Ended(Stages[Len(run.run_trace)], run.status)
                    /\ cli_out' = [exit |-> 1, directories |-> opts.directories,
                                   printed |-> opts.header, shown |-> FALSE]
                    /\ UNCHANGED <<returned, files>>
               ELSE \E rep \in {ReportsOf(cfg, run.self, opts)} :
                      /\ last_call' = rep.last_call
                      /\ returned' = rep.returned
                      /\ files' = [f \in DOMAIN files |->
                                      IF f \in DOMAIN rep.written
                                      THEN rep.written[f] ELSE files[f]]
                      /\ cli_out' = [exit |-> IF rep.status = "ok" THEN 0 ELSE 1,
                                     directories |-> opts.directories,
                                     printed |-> opts.header \o rep.printed,
                                     shown |-> rep.shown]

\* main(), once per process: the configuration is chosen or constructed, the
\* output directory created, the optimizer constructed and run, the reports made as the options
\* ask; every exception is logged and the process exits with status 1
main ==
    /\ cli_entry = Call /\ cli_out = NotCalled
    /\ cli_config' = ConfigOfMain(cli_args)
    /\ IF cli_config'.status # "ok"
       THEN /\ cli_out' = [exit |-> 1, directories |-> {}, printed |-> <<>>,
                           shown |-> FALSE]
            /\ UNCHANGED <<selVars, config, benchmark_data, portfolio_data,
                           benchmark_return, benchmark_risk, portfolio_scenarios,
                           optimal_portfolio, optimal_weights, risk_boundaries,
                           last_call, results, runVars, outVars>>
       ELSE Process(cli_config',
                    [directories |-> {"output"}, header |-> <<>>,
                     save_results |-> cli_args.save_results,
                     plot |-> cli_args.show_plot \/ cli_args.save_plot,
                     save_plot |-> cli_args.save_plot,
                     show_plot |-> cli_args.show_plot])
    /\ UNCHANGED <<market, cli_args, cli_entry, rar_args, rar_result, cfg_args,
                   cfg_result, metVars>>

\* the command line without arguments: every option at its default
NoArguments ==
    [benchmark |-> DEFAULT_CONFIG.benchmark_tickers,
     portfolio |-> DEFAULT_CONFIG.portfolio_tickers,
     start_date |-> DEFAULT_CONFIG.start_date,
     end_date |-> DEFAULT_CONFIG.end_date,
     scenarios |-> DEFAULT_CONFIG.number_of_scenarios,
     delta_risk |-> DEFAULT_CONFIG.delta_risk,
     trade_days |-> DEFAULT_CONFIG.trade_days_per_year,
     save_results |-> FALSE, show_plot |-> FALSE, save_plot |-> FALSE]

\* run_example(), what `python main.py` without arguments calls: the default
\* configuration, the summary, the figure and the table; nothing is saved and an
\* exception is not caught
run_example ==
    /\ cli_entry = Call /\ cli_args = NoArguments /\ cli_out = NotCalled
    /\ cli_config' = DEFAULT_CONFIG
    /\ Process(DEFAULT_CONFIG,
               [directories |-> {}, header |-> <<"Running Portfolio Optimization Example">>,
                save_results |-> FALSE, plot |-> TRUE, save_plot |-> FALSE,
                show_plot |-> FALSE])
    /\ UNCHANGED <<market, cli_args, cli_entry, rar_args, rar_result, cfg_args,
                   cfg_result, metVars>>

\* main.py run as a script, `python main.py ...`: its import of portfolio_optimizer
\* as a top-level module meets that module's relative imports, and the ImportError
\* ends the process before a line of main() or run_example() runs
main_py ==
    /\ cli_entry = Script /\ cli_out = NotCalled
    /\ cli_out' = [exit |-> 1, directories |-> {}, printed |-> <<>>, shown |-> FALSE]
    /\ UNCHANGED <<cli_args, cli_config, cli_entry, rar_args, rar_result, cfg_args,
                   cfg_result, selVars, metVars, objVars, runVars, outVars>>

\* the data source has nothing for the portfolio's tickers, or for any ticker
SilentMarkets ==
    {[benchmark |-> <<1, 1, 2>>, portfolio |-> NoData],
     [benchmark |-> NoData, portfolio |-> NoData]}

\* the command line asks for a run of more than MaxScenarios scenarios
LongRun(args) ==
    /\ ConfigOfMain(args).status = "ok"
    /\ ConfigOfMain(args).number_of_scenarios > MaxScenarios

\* a command line, the data the source has for it, and no optimizer yet; the long
\* runs are started on a source that answers nothing
InitCli ==
    /\ cli_args \in CliInputs
    /\ cli_entry \in {Script, Call}
    /\ cli_config = NotCalled /\ cli_out = NotCalled
    /\ market \in IF LongRun(cli_args) THEN SilentMarkets ELSE CliMarkets
    /\ config = None
    /\ ObjInit
    /\ rar_args = None /\ rar_result = NotCalled
    /\ cfg_args = None /\ cfg_result = NotCalled
    /\ sel_args = None /\ sel_result = NotCalled
    /\ met_args = None /\ met_result = NotCalled /\ est_result = NotCalled
    /\ RunIdle /\ OutIdle

\* the script, or main() or run_example() called once main.py's modules are loaded
NextCli ==
    \/ main_py
    \/ main
    \/ run_example

SpecCli == InitCli /\ [][NextCli]_vars


\* the long runs on a source that answers: the command line without arguments,
\* its 10000 scenarios run by main() or by run_example()
InitCliLong ==
    /\ cli_args = NoArguments
    /\ cli_entry = Call
    /\ cli_config = NotCalled /\ cli_out = NotCalled
    /\ market \in CliMarkets
    /\ config = None
    /\ ObjInit
    /\ rar_args = None /\ rar_result = NotCalled
    /\ cfg_args = None /\ cfg_result = NotCalled
    /\ sel_args = None /\ sel_result = NotCalled
    /\ met_args = None /\ met_result = NotCalled /\ est_result = NotCalled
    /\ RunIdle /\ OutIdle

SpecCliLong == InitCliLong /\ [][NextCli]_vars

====
